---------------------------- MODULE Spec2Model ----------------------------
(***************************************************************************)
(* A model of bukzor_color: the canonical linear-RGB Color, the sRGB and   *)
(* WCAG-HCL conversions, and the WCAG contrast calculation and adjustment. *)
(*                                                                         *)
(* Numbers.  The library computes with decimal.Decimal (28 significant     *)
(* digits, rounding to nearest).  The model computes with integers that    *)
(* count millionths: the integer n stands for the decimal n / ONE, and     *)
(* every product and quotient is rounded to the nearest millionth.  TLC's  *)
(* integers are 32 bits wide, so products and quotients are taken limb by  *)
(* limb and digit by digit; an overflow or a division by zero stops TLC    *)
(* with an error instead of giving a wrong number.                         *)
(*                                                                         *)
(* Local variables.  A local variable of the code that is read more than   *)
(* once is the parameter of a local operator (named after the variable),   *)
(* applied to the expression the code assigns to it, so that the           *)
(* expression is written, and evaluated, once.                             *)
(***************************************************************************)
EXTENDS Integers, Sequences, FiniteSets, TLC

\* call and ret are a call of the library and what it returned or raised;
\* shared is a lazy Color (api.py) that callers share, readers is what each
\* of its callers is doing
VARIABLES call, ret, shared, readers

vars == <<call, ret, shared, readers>>

-----------------------------------------------------------------------------
(* Decimal arithmetic in millionths *)

\* Decimal('1')
ONE == 1000000

\* ONE = Limb * Limb: the two limbs of a product
Limb == 1000

\* the six decimal places of a quotient
Places == 6

Abs(a) == IF a < 0 THEN -a ELSE a

Sgn(a) == IF a < 0 THEN -1 ELSE 1

Min(a, b) == IF a <= b THEN a ELSE b

Max(a, b) == IF a >= b THEN a ELSE b

\* The exact product of a and b is ProdHi(a, b) + ProdLo(a, b) / ONE, whatever
\* the signs of a and b: \div rounds down and % is never negative.
ProdMid(a, b) == (a \div Limb) * (b % Limb) + (a % Limb) * (b \div Limb)

ProdHi(a, b) == (a \div Limb) * (b \div Limb) + (ProdMid(a, b) \div Limb)

ProdLo(a, b) == (ProdMid(a, b) % Limb) * Limb + (a % Limb) * (b % Limb)

\* Decimal.__mul__ : a * b, rounded to the nearest millionth
Mul(a, b) == ProdHi(a, b) + ((ProdLo(a, b) + (ONE \div 2)) \div ONE)

RECURSIVE DivDigits(_, _, _, _)
DivDigits(q, r, b, n) ==
    IF n = 0
    THEN (IF 2 * r >= b THEN q + 1 ELSE q)
    ELSE DivDigits(q * 10 + ((r * 10) \div b), (r * 10) % b, b, n - 1)

\* a * ONE / b for a >= 0, b > 0, rounded to nearest (long division)
DivU(a, b) == DivDigits(a \div b, a % b, b, Places)

\* Decimal.__truediv__ ; a zero divisor is an error in both
Div(a, b) == Sgn(a) * Sgn(b) * DivU(Abs(a), Abs(b))

\* a / n for a whole number n > 0, rounded to nearest
DivInt(a, n) == Sgn(a) * ((Abs(a) + (n \div 2)) \div n)

\* a1*b1 + a2*b2 + a3*b3: a sum of products that Decimal holds exactly, rounded
\* to the nearest millionth once
Dot3(a1, b1, a2, b2, a3, b3) ==
    ProdHi(a1, b1) + ProdHi(a2, b2) + ProdHi(a3, b3)
      + ((ProdLo(a1, b1) + ProdLo(a2, b2) + ProdLo(a3, b3) + (ONE \div 2)) \div ONE)

\* Decimal.__mod__ : the remainder takes the sign of the dividend
Rem(a, m) == Sgn(a) * (Abs(a) % m)

\* int(Decimal): truncation towards zero
Trunc(a) == Sgn(a) * (Abs(a) \div ONE)

RECURSIVE SqrtIter(_, _, _)
SqrtIter(v, r, n) ==
    IF n = 0
    THEN r
    ELSE LET r2 == (r + DivU(v, r)) \div 2
         IN  IF r2 >= r THEN r ELSE SqrtIter(v, r2, n - 1)

\* Decimal.sqrt(), by Newton's iteration from above
Sqrt(v) == IF v <= 0 THEN 0 ELSE SqrtIter(v, IF v > ONE THEN v ELSE ONE, 60)

\* (x**2 + y**2).sqrt().  Decimal is a floating decimal: the squares of small x
\* and y keep their digits.  To keep them here the larger of the two is factored
\* out: sqrt(x^2 + y^2) = m * sqrt(1 + (n/m)^2), m the larger and n the smaller.
Hypot(x, y) ==
    LET m == Max(Abs(x), Abs(y))
        n == Min(Abs(x), Abs(y))
        t == IF m = 0 THEN 0 ELSE Div(n, m)
    IN  Mul(m, Sqrt(ONE + Mul(t, t)))

-----------------------------------------------------------------------------
(* math.pi, math.cos, math.sin, math.atan2: the float functions the WCAG-HCL *)
(* encoding calls, to the nearest millionth                                  *)

\* Decimal(str(math.pi))
PI == 3141593

HALF_PI == 1570796

\* sin x = x (1 - x^2/6 (1 - x^2/20 (1 - x^2/42 (1 - x^2/72))))  for |x| <= pi/4
SinPoly(x, x2) ==
    x - Mul(x, DivInt(Mul(x2, ONE - DivInt(Mul(x2, ONE - DivInt(Mul(x2,
            ONE - DivInt(x2, 72)), 42)), 20)), 6))

SinSeries(x) == SinPoly(x, Mul(x, x))

\* cos x = 1 - x^2/2 (1 - x^2/12 (1 - x^2/30 (1 - x^2/56)))  for |x| <= pi/4
CosPoly(x2) ==
    ONE - DivInt(Mul(x2, ONE - DivInt(Mul(x2, ONE - DivInt(Mul(x2,
            ONE - DivInt(x2, 56)), 30)), 12)), 2)

CosSeries(x) == CosPoly(Mul(x, x))

\* the quarter turn nearest to x
Quarter(x) == Sgn(x) * ((Abs(x) + (HALF_PI \div 2)) \div HALF_PI)

\* sin (q pi/2 + r) for q in 0..3 and |r| <= pi/4
SinQuarter(q, r) ==
    (IF q >= 2 THEN -1 ELSE 1) * (IF q % 2 = 0 THEN SinSeries(r) ELSE CosSeries(r))

\* math.sin of an angle in radians
Sin(x) == SinQuarter(Quarter(x) % 4, x - Quarter(x) * HALF_PI)

\* math.cos of an angle in radians: cos x = sin (x + pi/2)
Cos(x) == SinQuarter((Quarter(x) + 1) % 4, x - Quarter(x) * HALF_PI)

\* atan t = t (1 - t^2 (1/3 - t^2 (1/5 - t^2 (1/7 - t^2/9))))  for 0 <= t <= 0.2
AtanPoly(t, t2) ==
    t - Mul(t, Mul(t2, 333333 - Mul(t2, 200000 - Mul(t2, 142857 - DivInt(t2, 9)))))

AtanSeries(t) == AtanPoly(t, Mul(t, t))

\* atan t = 2 atan (t / (1 + sqrt(1 + t^2)))
AtanHalve(t) == Div(t, ONE + Sqrt(ONE + Mul(t, t)))

\* atan t for 0 <= t <= 1
AtanUnit(t) == 4 * AtanSeries(AtanHalve(AtanHalve(t)))

\* the angle of (x, y) from the nearer axis, for x, y >= 0
AtanOctant(y, x) ==
    IF x = 0 /\ y = 0 THEN 0 ELSE AtanUnit(Div(Min(x, y), Max(x, y)))

\* an arc tangent that forgets the quadrant
AtanFold_first_quadrant(y, x, octant) ==
    IF Abs(x) >= Abs(y) THEN octant ELSE HALF_PI - octant

\* the angle of (x, y) in (-pi, pi], from its angle to the nearer axis
AtanFold(y, x, octant) ==
    LET a == IF Abs(x) >= Abs(y) THEN octant ELSE HALF_PI - octant
        b == IF x < 0 THEN PI - a ELSE a
    IN  IF y < 0 THEN -b ELSE b

\* math.atan2(y, x), in radians
Atan2(y, x) == AtanFold(y, x, AtanOctant(Abs(y), Abs(x)))

-----------------------------------------------------------------------------
(* Decimal.__pow__ with a fractional exponent: x ** p = exp(p * ln x) *)

\* ln 2
LN2 == 693147

\* x = m * 2^k with 0.75 <= m < 1.5: the pair <<m, k>>
RECURSIVE Mantissa(_, _)
Mantissa(x, k) ==
    IF x >= 1500000 THEN Mantissa(DivInt(x, 2), k + 1)
    ELSE IF x < 750000 THEN Mantissa(x * 2, k - 1)
    ELSE <<x, k>>

\* 2 atanh z = 2 z (1 + z^2 (1/3 + z^2 (1/5 + z^2 (1/7 + z^2/9))))
LnPoly(z, z2) ==
    2 * (z + Mul(z, Mul(z2, 333333 + Mul(z2, 200000 + Mul(z2, 142857 + DivInt(z2, 9))))))

LnSeries(z) == LnPoly(z, Mul(z, z))

\* ln (m * 2^k) = 2 atanh ((m - 1) / (m + 1)) + k ln 2
LnMantissa(mk) == LnSeries(Div(mk[1] - ONE, mk[1] + ONE)) + mk[2] * LN2

\* ln x for x > 0
Ln(x) == LnMantissa(Mantissa(x, 0))

RECURSIVE Pow2(_)
Pow2(n) == IF n = 0 THEN 1 ELSE 2 * Pow2(n - 1)

\* e^r = 1 + r (1 + r/2 (1 + r/3 (... (1 + r/8))))  for |r| <= (ln 2)/2
ExpSeries(r) ==
    ONE + Mul(r, ONE + DivInt(Mul(r, ONE + DivInt(Mul(r, ONE + DivInt(Mul(r,
        ONE + DivInt(Mul(r, ONE + DivInt(Mul(r, ONE + DivInt(Mul(r,
        ONE + DivInt(r, 8)), 7)), 6)), 5)), 4)), 3)), 2))

\* e * 2^k
ExpShift(e, k) == IF k >= 0 THEN e * Pow2(k) ELSE DivInt(e, Pow2(-k))

\* the multiple of ln 2 nearest to y
ExpTurns(y) == Sgn(y) * ((Abs(y) + (LN2 \div 2)) \div LN2)

\* e^y = e^r * 2^k, y = k ln 2 + r
Exp(y) == ExpShift(ExpSeries(y - ExpTurns(y) * LN2), ExpTurns(y))

\* x ** p for x >= 0
Pow(x, p) == IF x = 0 THEN 0 ELSE Exp(Mul(p, Ln(x)))

-----------------------------------------------------------------------------
(* core.py: the canonical Color *)

Err(type, what) == [kind |-> "error", type |-> type, what |-> what]

IsErr(v) == v.kind = "error"

\* a Decimal that a call returns
Decimal(v) == [kind |-> "Decimal", value |-> v]

\* a range check that forgets the lower end
InRange01_upper(v) == v <= ONE

InRange01(v) == 0 <= v /\ v <= ONE

\* Color.__post_init__: the first component outside [0,1] is the one named
Color(r, g, b) ==
    IF ~InRange01(r) THEN Err("ValueError", "Color red must be 0-1")
    ELSE IF ~InRange01(g) THEN Err("ValueError", "Color green must be 0-1")
    ELSE IF ~InRange01(b) THEN Err("ValueError", "Color blue must be 0-1")
    ELSE [kind |-> "Color", red |-> r, green |-> g, blue |-> b]

\* Color.from_linear_rgb
from_linear_rgb(r, g, b) == Color(r, g, b)

\* srgb_to_linear of Color.from_srgb, on the normalized channel
srgb_to_linear(normalized) ==
    IF normalized <= 40450
    THEN Div(normalized, 12920000)
    ELSE Pow(Div(normalized + 55000, 1055000), 2400000)

\* Color.from_srgb
from_srgb(r, g, b) ==
    Color(srgb_to_linear(DivInt(r * ONE, 255)),
          srgb_to_linear(DivInt(g * ONE, 255)),
          srgb_to_linear(DivInt(b * ONE, 255)))

\* int(srgb * 255): the byte without the rounding half
to_byte_truncated(srgb) == Max(0, Min(255, Trunc(srgb * 255)))

\* int(srgb * 255 + 0.5), clamped to a byte
to_byte(srgb) == Max(0, Min(255, Trunc(srgb * 255 + (ONE \div 2))))

\* linear_to_srgb of Color.to_srgb.  The threshold 0.0031308 lies between 3130
\* and 3131 millionths.
linear_to_srgb(component) ==
    to_byte(IF component <= 3130
            THEN Mul(component, 12920000)
            ELSE Mul(1055000, Pow(component, Div(ONE, 2400000))) - 55000)

\* Color.to_srgb
to_srgb(self) ==
    <<linear_to_srgb(self.red), linear_to_srgb(self.green), linear_to_srgb(self.blue)>>

\* A result as the Decimal context rounds it.  The context keeps a number of
\* significant digits, so a result from 1 to 10 has one decimal place fewer
\* than a result below 1: 6 * 0.1666...67 is 1, not 1.000...02.
Sig(x) == IF Abs(x) >= ONE THEN DivInt(x, 10) * 10 ELSE x

\* hue_to_rgb of Color.from_hsl; t is moved into [0,1] first
hue_to_rgb(p, q, t) ==
    LET wrapped(u) ==
            IF u < DivInt(ONE, 6) THEN Sig(p + Mul(Sig(6 * (q - p)), u))
            ELSE IF u < DivInt(ONE, 2) THEN q
            ELSE IF u < DivInt(2 * ONE, 3)
            THEN Sig(p + Sig(6 * Mul(q - p, DivInt(2 * ONE, 3) - u)))
            ELSE p
        raised(u) == wrapped(IF u > ONE THEN u - ONE ELSE u)
    IN  raised(IF t < 0 THEN t + ONE ELSE t)

\* Color.from_hsl
from_hsl(h, s, l) ==
    LET chromatic(h_norm, p, q) ==
            Color(srgb_to_linear(hue_to_rgb(p, q, h_norm + DivInt(ONE, 3))),
                  srgb_to_linear(hue_to_rgb(p, q, h_norm)),
                  srgb_to_linear(hue_to_rgb(p, q, h_norm - DivInt(ONE, 3))))
        with_q(h_norm, l_norm, q) == chromatic(h_norm, 2 * l_norm - q, q)
        norm(h_norm, s_norm, l_norm) ==
            IF s_norm = 0
            THEN Color(srgb_to_linear(l_norm), srgb_to_linear(l_norm),
                       srgb_to_linear(l_norm))
            ELSE with_q(h_norm, l_norm,
                        IF l_norm < ONE \div 2
                        THEN Mul(l_norm, ONE + s_norm)
                        ELSE l_norm + s_norm - Mul(l_norm, s_norm))
    IN  norm(DivInt(h, 360), DivInt(s, 100), DivInt(l, 100))

\* h_sector of Color.from_hsv: int(h_norm * 6) % 6
h_sector(h_norm) == Trunc(Sig(6 * h_norm)) % 6

\* Color.from_hsv
from_hsv(h, s, v) ==
    LET sector(i, v_norm, p, q, t) ==
            IF i = 0 THEN <<v_norm, t, p>>
            ELSE IF i = 1 THEN <<q, v_norm, p>>
            ELSE IF i = 2 THEN <<p, v_norm, t>>
            ELSE IF i = 3 THEN <<p, q, v_norm>>
            ELSE IF i = 4 THEN <<t, p, v_norm>>
            ELSE <<v_norm, p, q>>
        rgb(c) ==
            Color(srgb_to_linear(c[1]), srgb_to_linear(c[2]), srgb_to_linear(c[3]))
        fract(i, h_fract, s_norm, v_norm) ==
            rgb(sector(i, v_norm,
                       Mul(v_norm, ONE - s_norm),
                       Mul(v_norm, ONE - Mul(s_norm, h_fract)),
                       Mul(v_norm, ONE - Mul(s_norm, ONE - h_fract))))
        sectored(i, h_norm, s_norm, v_norm) ==
            fract(i, Sig(6 * h_norm) - i * ONE, s_norm, v_norm)
        norm(h_norm, s_norm, v_norm) ==
            IF s_norm = 0 THEN rgb(<<v_norm, v_norm, v_norm>>)
            ELSE sectored(h_sector(h_norm), h_norm, s_norm, v_norm)
    IN  norm(DivInt(h, 360), DivInt(s, 100), DivInt(v, 100))

\* HSLEncoding.decode
HSLDecode(enc) == from_hsl(enc.h, enc.s, enc.l)

\* HSVEncoding.decode
HSVDecode(enc) == from_hsv(enc.h, enc.s, enc.v)

\* ColorWithAlpha(color, alpha), with the check of __post_init__
ColorWithAlpha(color, alpha) ==
    IF ~(0 <= alpha /\ alpha <= ONE) THEN Err("ValueError", "Alpha must be 0-1")
    ELSE [kind |-> "ColorWithAlpha", color |-> color, alpha |-> alpha]

\* Color.with_alpha
with_alpha(self, alpha) == ColorWithAlpha(self, alpha)

\* compositing that weighs the background by alpha as well
over_same_weight(self, background) ==
    from_linear_rgb(
        Mul(self.alpha, self.color.red) + Mul(self.alpha, background.red),
        Mul(self.alpha, self.color.green) + Mul(self.alpha, background.green),
        Mul(self.alpha, self.color.blue) + Mul(self.alpha, background.blue))

\* ColorWithAlpha.over
over(self, background) ==
    LET blend(alpha, inv_alpha) ==
            from_linear_rgb(
                Mul(alpha, self.color.red) + Mul(inv_alpha, background.red),
                Mul(alpha, self.color.green) + Mul(inv_alpha, background.green),
                Mul(alpha, self.color.blue) + Mul(inv_alpha, background.blue))
    IN  blend(self.alpha, ONE - self.alpha)

-----------------------------------------------------------------------------
(* encodings/hex.py.  A text is a sequence of one-character strings. *)

HexLower == <<"0", "1", "2", "3", "4", "5", "6", "7", "8", "9",
              "a", "b", "c", "d", "e", "f">>

HexUpper == <<"0", "1", "2", "3", "4", "5", "6", "7", "8", "9",
              "A", "B", "C", "D", "E", "F">>

\* [0-9a-fA-F]
IsHexDigit(ch) == \E i \in 1 .. 16 : HexLower[i] = ch \/ HexUpper[i] = ch

HexDigitValue(ch) == (CHOOSE i \in 1 .. 16 : HexLower[i] = ch \/ HexUpper[i] = ch) - 1

\* re.match(r"^[0-9a-fA-F]{n}$", text), on a text without line breaks
MatchesHex(text, n) == Len(text) = n /\ \A i \in 1 .. n : IsHexDigit(text[i])

\* int(text, 16)
RECURSIVE int16(_)
int16(text) ==
    IF text = << >> THEN 0
    ELSE 16 * int16(SubSeq(text, 1, Len(text) - 1)) + HexDigitValue(text[Len(text)])

Whitespace == {" ", "\t", "\n"}

RECURSIVE lstrip(_)
lstrip(text) ==
    IF text # << >> /\ text[1] \in Whitespace THEN lstrip(Tail(text)) ELSE text

RECURSIVE rstrip(_)
rstrip(text) ==
    IF text # << >> /\ text[Len(text)] \in Whitespace
    THEN rstrip(SubSeq(text, 1, Len(text) - 1))
    ELSE text

\* str.strip
strip(text) == rstrip(lstrip(text))

HexEncoding(r, g, b) == [kind |-> "HexEncoding", r |-> r, g |-> g, b |-> b]

\* HexEncoding.parse
HexParse(text) ==
    LET hex_value(v) == HexEncoding((v \div 65536) % 256, (v \div 256) % 256, v % 256)
        clean_text(t) ==
            IF ~MatchesHex(t, 6)
            THEN Err("ValueError", "Invalid hex format")
            ELSE hex_value(int16(t))
        unhashed(t) ==
            clean_text(IF MatchesHex(t, 3)
                       THEN <<t[1], t[1], t[2], t[2], t[3], t[3]>>
                       ELSE t)
        stripped(t) == unhashed(IF t # << >> /\ t[1] = "#" THEN Tail(t) ELSE t)
    IN  stripped(strip(text))

\* HexEncoding.decode
HexDecode(enc) == from_srgb(enc.r, enc.g, enc.b)

\* HexEncoding.encode
HexEncode(color) ==
    LET rgb(t) == HexEncoding(t[1], t[2], t[3]) IN rgb(to_srgb(color))

\* f"{n:02x}" for a byte n
Hex02(n) == <<HexLower[(n \div 16) + 1], HexLower[(n % 16) + 1]>>

\* HexEncoding.__str__
HexStr(enc) == <<"#">> \o Hex02(enc.r) \o Hex02(enc.g) \o Hex02(enc.b)

-----------------------------------------------------------------------------
(* encodings/wcag_hcl.py *)

WCAG_R == 212600
WCAG_G == 715200
WCAG_B == 72200

U1_R == 958546
U1_G == -284937
U1_B == 0

U2_R == 27444
U2_G == 92323
U2_B == -995351

\* Decimal('inf')
Inf == 2147483647

\* no clamping
Clamp01_none(v) == v

\* min(1, v), with no lower end
Clamp01_upper(v) == Min(ONE, v)

\* max(0, min(1, v))
Clamp01(v) == Max(0, Min(ONE, v))

\* the largest scale the model holds; the smallest of the three scales of a
\* luminance in [0,1] is far below it
ScaleCap == 2000 * ONE

\* a / b, held at ScaleCap when it is beyond it
DivCapped(a, b) ==
    IF Abs(a) \div Abs(b) >= ScaleCap \div ONE
    THEN Sgn(a) * Sgn(b) * ScaleCap
    ELSE Div(a, b)

\* one round of the loop that finds the largest scale keeping a channel in [0,1]
ScaleStep(max_scale, gray_val, dir_val) ==
    IF dir_val = 0 THEN max_scale
    ELSE Min(max_scale,
             DivCapped(IF dir_val > 0 THEN ONE - gray_val ELSE -gray_val, dir_val))

\* for gray_val, dir_val in [(l, dir_r), (l, dir_g), (l, dir_b)]
MaxScale(l, dir) ==
    ScaleStep(ScaleStep(ScaleStep(Inf, l, dir[1]), l, dir[2]), l, dir[3])

WcagHCLEncoding(h, c, l) == [kind |-> "WcagHCLEncoding", h |-> h, c |-> c, l |-> l]

\* the unit vectors of the chroma plane, by channel (red, green, blue)
U1 == <<U1_R, U1_G, U1_B>>

U2 == <<U2_R, U2_G, U2_B>>

\* h * Decimal(str(math.pi)) / Decimal('180'), half turn by half turn so that no
\* product overflows
Radians(h) ==
    Sgn(h) * (Abs(h) \div (180 * ONE)) * PI + DivInt(Mul(Rem(h, 180 * ONE), PI), 180)

\* WcagHCLEncoding.decode
WcagDecode(enc) ==
    LET actual_scale(s, dir) ==
            from_linear_rgb(Clamp01(enc.l + Mul(s, dir[1])),
                            Clamp01(enc.l + Mul(s, dir[2])),
                            Clamp01(enc.l + Mul(s, dir[3])))
        max_scale(m, dir) ==
            IF m = Inf
            THEN Err("InvalidOperation", "inf * 0")
            ELSE actual_scale(Mul(m, DivInt(enc.c, 100)), dir)
        dir_rgb(dir) == max_scale(MaxScale(enc.l, dir), dir)
        unit(unit_x, unit_y) ==
            dir_rgb(<< >> \o [ch \in 1 .. 3 |-> Dot3(unit_x, U1[ch], unit_y, U2[ch], 0, 0)])
        h_rad(a) == unit(Cos(a), Sin(a))
        clamped_l(v) == from_linear_rgb(v, v, v)
    IN  IF enc.c = 0
        THEN clamped_l(Clamp01(enc.l))
        ELSE h_rad(Radians(enc.h))

\* the luminance with the red and green weights exchanged
WcagLuminance_swapped(color) ==
    Dot3(WCAG_G, color.red, WCAG_R, color.green, WCAG_B, color.blue)

\* the WCAG luminance, the first line of encode
WcagLuminance(color) ==
    Dot3(WCAG_R, color.red, WCAG_G, color.green, WCAG_B, color.blue)

\* WcagHCLEncoding.encode
WcagEncode(color) ==
    LET max_scale(m, L, H, chroma_magnitude) ==
            WcagHCLEncoding(H,
                            IF m > 0 /\ m # Inf
                            THEN Div(chroma_magnitude, m) * 100
                            ELSE 0,
                            L)
        dir_rgb(dir, L, H, chroma_magnitude) ==
            max_scale(MaxScale(L, dir), L, H, chroma_magnitude)
        unit(cos_H, sin_H, L, H, chroma_magnitude) ==
            dir_rgb(<< >> \o [ch \in 1 .. 3 |-> Dot3(cos_H, U1[ch], sin_H, U2[ch], 0, 0)],
                    L, H, chroma_magnitude)
        magnitude(m, x, y, L, H) == unit(Div(x, m), Div(y, m), L, H, m)
        plane(x, y, L) ==
            IF x = 0 /\ y = 0
            THEN WcagHCLEncoding(0, 0, L)
            ELSE magnitude(Hypot(x, y), x, y, L,
                           Rem(Div(Atan2(y, x) * 180, PI), 360 * ONE))
        chroma(chroma_r, chroma_g, chroma_b, L) ==
            plane(Dot3(chroma_r, U1_R, chroma_g, U1_G, chroma_b, U1_B),
                  Dot3(chroma_r, U2_R, chroma_g, U2_G, chroma_b, U2_B), L)
        lum(L) == chroma(color.red - L, color.green - L, color.blue - L, L)
    IN  lum(WcagLuminance(color))

-----------------------------------------------------------------------------
(* encodings: the text parsers.  The regular expressions of the code are    *)
(* sequences of tokens; in each of them two neighbouring tokens never start *)
(* with the same character, so matching greedily from left to right finds   *)
(* the same match as re.match.                                              *)

\* str.startswith
startswith(text, prefix) ==
    Len(text) >= Len(prefix) /\ SubSeq(text, 1, Len(prefix)) = prefix

LowerCase == <<"a", "b", "c", "d", "e", "f", "g", "h", "i", "j", "k", "l", "m",
               "n", "o", "p", "q", "r", "s", "t", "u", "v", "w", "x", "y", "z">>

UpperCase == <<"A", "B", "C", "D", "E", "F", "G", "H", "I", "J", "K", "L", "M",
               "N", "O", "P", "Q", "R", "S", "T", "U", "V", "W", "X", "Y", "Z">>

\* str.lower
lower(text) ==
    [i \in 1 .. Len(text) |->
        IF \E k \in 1 .. 26 : UpperCase[k] = text[i]
        THEN LowerCase[CHOOSE k \in 1 .. 26 : UpperCase[k] = text[i]]
        ELSE text[i]]

\* \d
Digits == {"0", "1", "2", "3", "4", "5", "6", "7", "8", "9"}

\* [0-9.]
NumChars == Digits \cup {"."}

\* the tokens of a pattern: a literal text, \s*, a group ([class]+), and ch?
Lit(s) == [t |-> "lit", s |-> s]

Ws == [t |-> "ws"]

Grp(class) == [t |-> "group", class |-> class]

Opt(ch) == [t |-> "opt", ch |-> ch]

\* the end of the longest run of characters of the class that starts at i
RECURSIVE RunEnd(_, _, _)
RunEnd(text, i, class) ==
    IF i <= Len(text) /\ text[i] \in class THEN RunEnd(text, i + 1, class) ELSE i

\* re.match returned None
NoMatch == [kind |-> "None"]

\* re.match(pattern, text): the tokens from the k-th on match the text from
\* position i on; the match need not reach the end of the text
RECURSIVE Match(_, _, _, _, _)
Match(text, i, pattern, k, groups) ==
    LET group(j) ==
            IF j = i THEN NoMatch
            ELSE Match(text, j, pattern, k + 1, Append(groups, SubSeq(text, i, j - 1)))
    IN  IF k > Len(pattern) THEN [kind |-> "Match", groups |-> groups, end |-> i]
        ELSE IF pattern[k].t = "lit"
        THEN IF startswith(SubSeq(text, i, Len(text)), pattern[k].s)
             THEN Match(text, i + Len(pattern[k].s), pattern, k + 1, groups)
             ELSE NoMatch
        ELSE IF pattern[k].t = "ws"
        THEN Match(text, RunEnd(text, i, Whitespace), pattern, k + 1, groups)
        ELSE IF pattern[k].t = "group"
        THEN group(RunEnd(text, i, pattern[k].class))
        ELSE Match(text,
                   IF i <= Len(text) /\ text[i] = pattern[k].ch THEN i + 1 ELSE i,
                   pattern, k + 1, groups)

\* name\(\s*(G)\s*,\s*(G)%?\s*,\s*(G)%?\s*\), the '%' only where the flag says
FunctionPattern(name, class, percent2, percent3) ==
    <<Lit(name \o <<"(">>), Ws, Grp(class), Ws, Lit(<<",">>), Ws, Grp(class)>>
      \o (IF percent2 THEN <<Opt("%")>> ELSE << >>)
      \o <<Ws, Lit(<<",">>), Ws, Grp(class)>>
      \o (IF percent3 THEN <<Opt("%")>> ELSE << >>)
      \o <<Ws, Lit(<<")">>)>>

\* int(text) of a text of digits
RECURSIVE int(_)
int(text) ==
    IF text = << >> THEN 0
    ELSE 10 * int(SubSeq(text, 1, Len(text) - 1))
           + (CHOOSE d \in 0 .. 9 : HexLower[d + 1] = text[Len(text)])

\* the digits after the point as millionths; digits past the sixth are dropped
Fraction(text) ==
    int([i \in 1 .. Places |-> IF i <= Len(text) THEN text[i] ELSE "0"])

\* Decimal(text) of a text of digits and points: a number has one point at most
\* and a digit at least; any other text raises decimal.InvalidOperation
DecimalOf(text) ==
    LET point(p) ==
            IF p > Len(text) THEN Decimal(int(text) * ONE)
            ELSE IF Len(text) = 1 \/ RunEnd(text, p + 1, Digits) <= Len(text)
            THEN Err("InvalidOperation", "ConversionSyntax")
            ELSE Decimal(int(SubSeq(text, 1, p - 1)) * ONE
                           + Fraction(SubSeq(text, p + 1, Len(text))))
    IN  point(RunEnd(text, 1, Digits))

RGBEncoding(r, g, b) == [kind |-> "RGBEncoding", r |-> r, g |-> g, b |-> b]

\* the range check of RGBEncoding.parse: the first channel outside 0..255 is named
RGBChecked(r, g, b) ==
    IF ~(0 <= r /\ r <= 255) THEN Err("ValueError", "RGB red must be 0-255")
    ELSE IF ~(0 <= g /\ g <= 255) THEN Err("ValueError", "RGB green must be 0-255")
    ELSE IF ~(0 <= b /\ b <= 255) THEN Err("ValueError", "RGB blue must be 0-255")
    ELSE RGBEncoding(r, g, b)

\* RGBEncoding.parse
RGBParse(text) ==
    LET match(m) ==
            IF m = NoMatch THEN Err("ValueError", "Invalid RGB format")
            ELSE RGBChecked(int(m.groups[1]), int(m.groups[2]), int(m.groups[3]))
    IN  match(Match(strip(text), 1,
                    FunctionPattern(<<"r", "g", "b">>, Digits, FALSE, FALSE), 1, << >>))

\* the three Decimal conversions of a parse, in the order of the code: the first
\* that fails raises, else the three numbers go on to the range checks
Converted(h, s, l) ==
    IF IsErr(h) THEN h
    ELSE IF IsErr(s) THEN s
    ELSE IF IsErr(l) THEN l
    ELSE [kind |-> "Decimals", h |-> h.value, s |-> s.value, l |-> l.value]

HSLEncoding(h, s, l) == [kind |-> "HSLEncoding", h |-> h, s |-> s, l |-> l]

\* the range checks of HSLEncoding.parse
HSLChecked(h, s, l) ==
    IF ~(0 <= h /\ h <= 360 * ONE) THEN Err("ValueError", "HSL hue must be 0-360")
    ELSE IF ~(0 <= s /\ s <= 100 * ONE)
    THEN Err("ValueError", "HSL saturation must be 0-100")
    ELSE IF ~(0 <= l /\ l <= 100 * ONE)
    THEN Err("ValueError", "HSL lightness must be 0-100")
    ELSE HSLEncoding(h, s, l)

\* HSLEncoding.parse
HSLParse(text) ==
    LET checked(c) == IF IsErr(c) THEN c ELSE HSLChecked(c.h, c.s, c.l)
        match(m) ==
            IF m = NoMatch THEN Err("ValueError", "Invalid HSL format")
            ELSE checked(Converted(DecimalOf(m.groups[1]), DecimalOf(m.groups[2]),
                                   DecimalOf(m.groups[3])))
    IN  match(Match(strip(text), 1,
                    FunctionPattern(<<"h", "s", "l">>, NumChars, TRUE, TRUE), 1, << >>))

HSVEncoding(h, s, v) == [kind |-> "HSVEncoding", h |-> h, s |-> s, v |-> v]

\* the range checks of HSVEncoding.parse
HSVChecked(h, s, v) ==
    IF ~(0 <= h /\ h <= 360 * ONE) THEN Err("ValueError", "HSV hue must be 0-360")
    ELSE IF ~(0 <= s /\ s <= 100 * ONE)
    THEN Err("ValueError", "HSV saturation must be 0-100")
    ELSE IF ~(0 <= v /\ v <= 100 * ONE)
    THEN Err("ValueError", "HSV value must be 0-100")
    ELSE HSVEncoding(h, s, v)

\* HSVEncoding.parse
HSVParse(text) ==
    LET checked(c) == IF IsErr(c) THEN c ELSE HSVChecked(c.h, c.s, c.l)
        match(m) ==
            IF m = NoMatch THEN Err("ValueError", "Invalid HSV format")
            ELSE checked(Converted(DecimalOf(m.groups[1]), DecimalOf(m.groups[2]),
                                   DecimalOf(m.groups[3])))
    IN  match(Match(strip(text), 1,
                    FunctionPattern(<<"h", "s", "v">>, NumChars, TRUE, TRUE), 1, << >>))

\* WcagHCLEncoding.parse: the numbers are not checked against any range
WcagParse(text) ==
    LET built(c) == IF IsErr(c) THEN c ELSE WcagHCLEncoding(c.h, c.s, c.l)
        match(m) ==
            IF m = NoMatch THEN Err("ValueError", "Invalid wcag-hcl format")
            ELSE built(Converted(DecimalOf(m.groups[1]), DecimalOf(m.groups[2]),
                                 DecimalOf(m.groups[3])))
    IN  match(Match(strip(text), 1,
                    FunctionPattern(<<"w", "c", "a", "g", "-", "h", "c", "l">>,
                                    NumChars, TRUE, FALSE), 1, << >>))

\* parse.py: the table of the CSS color names
CSS_NAMED_COLORS ==
    (<<"b", "l", "a", "c", "k">> :> <<"#", "0", "0", "0", "0", "0", "0">>) @@
    (<<"w", "h", "i", "t", "e">> :> <<"#", "f", "f", "f", "f", "f", "f">>) @@
    (<<"r", "e", "d">> :> <<"#", "f", "f", "0", "0", "0", "0">>) @@
    (<<"g", "r", "e", "e", "n">> :> <<"#", "0", "0", "8", "0", "0", "0">>) @@
    (<<"b", "l", "u", "e">> :> <<"#", "0", "0", "0", "0", "f", "f">>) @@
    (<<"y", "e", "l", "l", "o", "w">> :> <<"#", "f", "f", "f", "f", "0", "0">>) @@
    (<<"c", "y", "a", "n">> :> <<"#", "0", "0", "f", "f", "f", "f">>) @@
    (<<"m", "a", "g", "e", "n", "t", "a">> :> <<"#", "f", "f", "0", "0", "f", "f">>) @@
    (<<"s", "i", "l", "v", "e", "r">> :> <<"#", "c", "0", "c", "0", "c", "0">>) @@
    (<<"g", "r", "a", "y">> :> <<"#", "8", "0", "8", "0", "8", "0">>) @@
    (<<"m", "a", "r", "o", "o", "n">> :> <<"#", "8", "0", "0", "0", "0", "0">>) @@
    (<<"o", "l", "i", "v", "e">> :> <<"#", "8", "0", "8", "0", "0", "0">>) @@
    (<<"l", "i", "m", "e">> :> <<"#", "0", "0", "f", "f", "0", "0">>) @@
    (<<"a", "q", "u", "a">> :> <<"#", "0", "0", "f", "f", "f", "f">>) @@
    (<<"t", "e", "a", "l">> :> <<"#", "0", "0", "8", "0", "8", "0">>) @@
    (<<"n", "a", "v", "y">> :> <<"#", "0", "0", "0", "0", "8", "0">>) @@
    (<<"f", "u", "c", "h", "s", "i", "a">> :> <<"#", "f", "f", "0", "0", "f", "f">>) @@
    (<<"p", "u", "r", "p", "l", "e">> :> <<"#", "8", "0", "0", "0", "8", "0">>) @@
    (<<"o", "r", "a", "n", "g", "e">> :> <<"#", "f", "f", "a", "5", "0", "0">>) @@
    (<<"p", "i", "n", "k">> :> <<"#", "f", "f", "c", "0", "c", "b">>) @@
    (<<"b", "r", "o", "w", "n">> :> <<"#", "a", "5", "2", "a", "2", "a">>) @@
    (<<"g", "o", "l", "d">> :> <<"#", "f", "f", "d", "7", "0", "0">>) @@
    (<<"i", "n", "d", "i", "g", "o">> :> <<"#", "4", "b", "0", "0", "8", "2">>) @@
    (<<"v", "i", "o", "l", "e", "t">> :> <<"#", "e", "e", "8", "2", "e", "e">>) @@
    (<<"c", "r", "i", "m", "s", "o", "n">> :> <<"#", "d", "c", "1", "4", "3", "c">>) @@
    (<<"k", "h", "a", "k", "i">> :> <<"#", "f", "0", "e", "6", "8", "c">>) @@
    (<<"s", "a", "l", "m", "o", "n">> :> <<"#", "f", "a", "8", "0", "7", "2">>) @@
    (<<"c", "o", "r", "a", "l">> :> <<"#", "f", "f", "7", "f", "5", "0">>) @@
    (<<"t", "u", "r", "q", "u", "o", "i", "s", "e">> :> <<"#", "4", "0", "e", "0", "d", "0">>) @@
    (<<"p", "l", "u", "m">> :> <<"#", "d", "d", "a", "0", "d", "d">>) @@
    (<<"t", "a", "n">> :> <<"#", "d", "2", "b", "4", "8", "c">>)

\* re.match(r"^[0-9a-fA-F]{3,6}$", text), on a text without line breaks
MatchesHexRange(text) ==
    3 <= Len(text) /\ Len(text) <= 6 /\ \A i \in 1 .. Len(text) : IsHexDigit(text[i])

\* auto_parse that looks the text up in the table as it is written
auto_parse_exact_name(text) ==
    LET stripped(t) ==
            IF startswith(t, <<"#">>) \/ MatchesHexRange(t) THEN HexParse(t)
            ELSE IF startswith(t, <<"r", "g", "b", "(">>) THEN RGBParse(t)
            ELSE IF startswith(t, <<"h", "s", "l", "(">>) THEN HSLParse(t)
            ELSE IF startswith(t, <<"h", "s", "v", "(">>) THEN HSVParse(t)
            ELSE IF startswith(t, <<"w", "c", "a", "g", "-", "h", "c", "l", "(">>)
            THEN WcagParse(t)
            ELSE IF t \in DOMAIN CSS_NAMED_COLORS THEN HexParse(CSS_NAMED_COLORS[t])
            ELSE Err("ValueError", "Cannot auto-detect color format")
    IN  stripped(strip(text))

\* auto_parse
auto_parse(text) ==
    LET stripped(t) ==
            IF startswith(t, <<"#">>) \/ MatchesHexRange(t) THEN HexParse(t)
            ELSE IF startswith(t, <<"r", "g", "b", "(">>) THEN RGBParse(t)
            ELSE IF startswith(t, <<"h", "s", "l", "(">>) THEN HSLParse(t)
            ELSE IF startswith(t, <<"h", "s", "v", "(">>) THEN HSVParse(t)
            ELSE IF startswith(t, <<"w", "c", "a", "g", "-", "h", "c", "l", "(">>)
            THEN WcagParse(t)
            ELSE IF lower(t) \in DOMAIN CSS_NAMED_COLORS
            THEN HexParse(CSS_NAMED_COLORS[lower(t)])
            ELSE Err("ValueError", "Cannot auto-detect color format")
    IN  stripped(strip(text))

\* str.lstrip("#")
RECURSIVE lstrip_hash(_)
lstrip_hash(text) ==
    IF text # << >> /\ text[1] = "#" THEN lstrip_hash(Tail(text)) ELSE text

\* re.match(r"^[0-9a-fA-F]{6}$", text): '$' also matches before a final line break
MatchesHexLine(text) ==
    \/ MatchesHex(text, 6)
    \/ Len(text) = 7 /\ text[7] = "\n" /\ MatchesHex(SubSeq(text, 1, 6), 6)

\* Color.from_hex
from_hex(hex_string) ==
    LET hex_clean(t) ==
            IF ~MatchesHexLine(t) THEN Err("ValueError", "Invalid hex color format")
            ELSE from_srgb(int16(SubSeq(t, 1, 2)), int16(SubSeq(t, 3, 4)),
                           int16(SubSeq(t, 5, 6)))
    IN  hex_clean(lstrip_hash(hex_string))

\* Color.to_hex
to_hex(self) ==
    LET rgb(t) == <<"#">> \o Hex02(t[1]) \o Hex02(t[2]) \o Hex02(t[3])
    IN  rgb(to_srgb(self))

-----------------------------------------------------------------------------
(* core.py: luminance and contrast ratio of the canonical Color *)

\* Decimal('0.05')
FLARE == 50000

\* Color.luminance
luminance(color) == WcagEncode(color).l

\* a ratio that takes the colors in the order given
contrast_ratio_unordered(self, other) ==
    Div(luminance(self) + FLARE, luminance(other) + FLARE)

\* Color.contrast_ratio
contrast_ratio(self, other) ==
    LET lums(l1, l2) ==
            IF l1 > l2
            THEN Div(l1 + FLARE, l2 + FLARE)
            ELSE Div(l2 + FLARE, l1 + FLARE)
    IN  lums(luminance(self), luminance(other))

-----------------------------------------------------------------------------
(* contrast.py *)

ContrastResult(fg, bg, ratio) ==
    [kind |-> "ContrastResult", foreground |-> fg, background |-> bg, ratio |-> ratio]

\* a bool that a call returns
Bool(b) == [kind |-> "bool", value |-> b]

\* ContrastResult.passes_AA
passes_AA(self) == self.ratio >= 4500000

\* ContrastResult.passes_AAA
passes_AAA(self) == self.ratio >= 7 * ONE

\* ContrastResult.passes_AA_large
passes_AA_large(self) == self.ratio >= 3 * ONE

\* large text held to the threshold of AAA
passes_AAA_large_at_7(self) == self.ratio >= 7 * ONE

\* ContrastResult.passes_AAA_large
passes_AAA_large(self) == self.ratio >= 4500000

\* ContrastResult.meets_level
meets_level(self, level) ==
    IF level = "AA" THEN Bool(passes_AA(self))
    ELSE IF level = "AAA" THEN Bool(passes_AAA(self))
    ELSE IF level = "AA-large" THEN Bool(passes_AA_large(self))
    ELSE IF level = "AAA-large" THEN Bool(passes_AAA_large(self))
    ELSE IF level = "A" THEN Bool(TRUE)
    ELSE Err("ValueError", "Unknown WCAG level")

\* ContrastResult.compliance_summary
compliance_summary(self) ==
    [kind |-> "dict",
     items |-> ("AA" :> passes_AA(self)) @@ ("AAA" :> passes_AAA(self))
                 @@ ("AA-large" :> passes_AA_large(self))
                 @@ ("AAA-large" :> passes_AAA_large(self))]

\* a ratio with the darker luminance in the numerator
calculate_contrast_reversed(fg, bg) ==
    LET lums(l1, l2) ==
            ContrastResult(fg, bg,
                           IF l1 > l2
                           THEN Div(l2 + FLARE, l1 + FLARE)
                           ELSE Div(l1 + FLARE, l2 + FLARE))
    IN  lums(WcagEncode(fg).l, WcagEncode(bg).l)

\* calculate_contrast
calculate_contrast(fg, bg) ==
    LET lums(l1, l2) ==
            ContrastResult(fg, bg,
                           IF l1 > l2
                           THEN Div(l1 + FLARE, l2 + FLARE)
                           ELSE Div(l2 + FLARE, l1 + FLARE))
    IN  lums(WcagEncode(fg).l, WcagEncode(bg).l)

\* a target is a ContrastRatio (a Decimal) or the name of a WCAG level
Ratio(v) == [kind |-> "ratio", value |-> v]

Level(name) == [kind |-> "level", name |-> name]

ratio_map ==
    ("A" :> 1 * ONE) @@ ("AA" :> 4500000) @@ ("AAA" :> 7 * ONE)
      @@ ("AA-large" :> 3 * ONE) @@ ("AAA-large" :> 4500000)

\* an unknown name taken as the level AA
get_target_ratio_default_AA(level) ==
    IF level.kind = "ratio" THEN Ratio(level.value)
    ELSE IF level.name \in DOMAIN ratio_map THEN Ratio(ratio_map[level.name])
    ELSE Ratio(ratio_map["AA"])

\* get_target_ratio
get_target_ratio(level) ==
    IF level.kind = "ratio" THEN Ratio(level.value)
    ELSE IF level.name \in DOMAIN ratio_map THEN Ratio(ratio_map[level.name])
    ELSE Err("ValueError", "Unknown WCAG level")

\* the early return taken only above the target
MeetsTarget_strict(ratio, target_ratio) == ratio > target_ratio

\* the comparison that ends adjust_contrast early
MeetsTarget(ratio, target_ratio) == ratio >= target_ratio

Candidate(color, ratio, lum) ==
    [kind |-> "candidate", color |-> color, ratio |-> ratio, luminance |-> lum]

\* the required luminances without the 0.05 of the contrast formula
RequiredLuminances_no_flare(fixed_l, target_ratio) ==
    << Mul(target_ratio, fixed_l), Div(fixed_l, target_ratio) >>

\* the two luminances that would hit the target, above and below the fixed color
RequiredLuminances(fixed_l, target_ratio) ==
    << Mul(target_ratio, fixed_l + FLARE) - FLARE,
       Div(fixed_l + FLARE, target_ratio) - FLARE >>

\* a candidate that takes the luminance and drops the hue and the chroma
TestCandidate_gray(h, c, req_lum, fixed_color) ==
    LET test_color(t) ==
            IF IsErr(t) THEN t
            ELSE Candidate(t, calculate_contrast(t, fixed_color).ratio, req_lum)
    IN  test_color(WcagDecode(WcagHCLEncoding(0, 0, req_lum)))

\* the loop body that builds one candidate: decode, then re-measure
TestCandidate(h, c, req_lum, fixed_color) ==
    LET test_color(t) ==
            IF IsErr(t) THEN t
            ELSE Candidate(t, calculate_contrast(t, fixed_color).ratio, req_lum)
    IN  test_color(WcagDecode(WcagHCLEncoding(h, c, req_lum)))

\* the loop that keeps the candidate meeting the target with the smallest ratio
RECURSIVE BestCandidate(_, _, _, _)
BestCandidate(candidates, i, target_ratio, best) ==
    IF i > Len(candidates) THEN best
    ELSE LET cand == candidates[i]
             take == /\ cand.ratio >= target_ratio
                     /\ (best = << >> \/ cand.ratio < best[1].ratio)
         IN  BestCandidate(candidates, i + 1, target_ratio,
                           IF take THEN <<cand>> ELSE best)

\* candidates.sort(key=...)[0]: the first candidate with the least distance
RECURSIVE ClosestCandidate(_, _, _, _)
ClosestCandidate(candidates, i, target_ratio, best) ==
    IF i > Len(candidates) THEN best
    ELSE LET cand == candidates[i]
             take == Abs(cand.ratio - target_ratio) < Abs(best.ratio - target_ratio)
         IN  ClosestCandidate(candidates, i + 1, target_ratio,
                              IF take THEN cand ELSE best)

\* the first candidate, whatever the ratios measured
SelectCandidate_first(candidates, target_ratio) == candidates[1].color

\* the candidate the function returns: the one just above the target, or
\* failing that the one nearest to it
SelectCandidate(candidates, target_ratio) ==
    LET best_candidate(best) ==
            IF best # << >>
            THEN best[1].color
            ELSE ClosestCandidate(candidates, 2, target_ratio, candidates[1]).color
    IN  best_candidate(BestCandidate(candidates, 1, target_ratio, << >>))

\* the first candidate returned without a look at the ratios
adjust_lightness_for_contrast_first(color_to_adjust, fixed_color, target_ratio) ==
    LET required(h, c, req) == WcagDecode(WcagHCLEncoding(h, c, req[1]))
        wcag(adjust_wcag, fixed_wcag) ==
            required(adjust_wcag.h, adjust_wcag.c,
                     RequiredLuminances(fixed_wcag.l, target_ratio))
    IN  wcag(WcagEncode(color_to_adjust), WcagEncode(fixed_color))

\* _adjust_lightness_for_contrast
adjust_lightness_for_contrast(color_to_adjust, fixed_color, target_ratio) ==
    LET candidates(cands) ==
            IF IsErr(cands[1]) THEN cands[1]
            ELSE IF IsErr(cands[2]) THEN cands[2]
            ELSE SelectCandidate(cands, target_ratio)
        required(h, c, req) ==
            candidates(<< >> \o [i \in 1 .. 2 |-> TestCandidate(h, c, req[i], fixed_color)])
        wcag(adjust_wcag, fixed_wcag) ==
            required(adjust_wcag.h, adjust_wcag.c,
                     RequiredLuminances(fixed_wcag.l, target_ratio))
    IN  wcag(WcagEncode(color_to_adjust), WcagEncode(fixed_color))

\* the tuple with the two colors in the other order
Returned_swapped(fg, bg, result) ==
    [kind |-> "tuple", fg |-> bg, bg |-> fg, result |-> result]

\* return fg, bg, result
Returned(fg, bg, result) == [kind |-> "tuple", fg |-> fg, bg |-> bg, result |-> result]

\* one strategy of the auto branch, with its try/except
Strategy(adjusted, result, change) ==
    [adjusted |-> adjusted, result |-> result, change |-> change]

\* a strategy that does not measure how far it moved the color
TryStrategy_no_change(color_to_adjust, fixed_color, target_ratio, current_result, adjusting_fg) ==
    LET adjusted(a) ==
            IF IsErr(a)
            THEN Strategy(color_to_adjust, current_result, Inf)
            ELSE Strategy(a,
                          calculate_contrast(IF adjusting_fg THEN a ELSE fixed_color,
                                             IF adjusting_fg THEN fixed_color ELSE a),
                          0)
    IN  adjusted(adjust_lightness_for_contrast(color_to_adjust, fixed_color, target_ratio))

\* adjusted_fg or adjusted_bg with its result and change, or the except branch
TryStrategy(color_to_adjust, fixed_color, target_ratio, current_result, adjusting_fg) ==
    LET adjusted(a) ==
            IF IsErr(a)
            THEN Strategy(color_to_adjust, current_result, Inf)
            ELSE Strategy(a,
                          calculate_contrast(IF adjusting_fg THEN a ELSE fixed_color,
                                             IF adjusting_fg THEN fixed_color ELSE a),
                          Abs(luminance(color_to_adjust) - luminance(a)))
    IN  adjusted(adjust_lightness_for_contrast(color_to_adjust, fixed_color, target_ratio))

\* an auto branch that returns both adjusted colors
ChooseStrategy_both(fg, bg, f, b, target_ratio) ==
    Returned(f.adjusted, b.adjusted, calculate_contrast(f.adjusted, b.adjusted))

\* the auto branch's choice between the two strategies
ChooseStrategy(fg, bg, f, b, target_ratio) ==
    IF f.result.ratio >= target_ratio /\ b.result.ratio >= target_ratio
    THEN (IF f.change <= b.change
          THEN Returned(f.adjusted, bg, f.result)
          ELSE Returned(fg, b.adjusted, b.result))
    ELSE IF f.result.ratio >= target_ratio THEN Returned(f.adjusted, bg, f.result)
    ELSE IF b.result.ratio >= target_ratio THEN Returned(fg, b.adjusted, b.result)
    ELSE IF f.result.ratio >= b.result.ratio THEN Returned(f.adjusted, bg, f.result)
    ELSE Returned(fg, b.adjusted, b.result)

\* adjust_contrast with every other mode taken as "fg"
adjust_contrast_any_mode(fg, bg, target, adjust) ==
    LET adjusted_fg(a) ==
            IF IsErr(a) THEN a ELSE Returned(a, bg, calculate_contrast(a, bg))
        adjusted_bg(a) ==
            IF IsErr(a) THEN a ELSE Returned(fg, a, calculate_contrast(fg, a))
        current(target_ratio, current_result) ==
            IF IsErr(target_ratio) THEN target_ratio
            ELSE IF MeetsTarget(current_result.ratio, target_ratio.value)
            THEN Returned(fg, bg, current_result)
            ELSE IF adjust = "bg"
            THEN adjusted_bg(adjust_lightness_for_contrast(bg, fg, target_ratio.value))
            ELSE IF adjust = "auto"
            THEN ChooseStrategy(fg, bg,
                     TryStrategy(fg, bg, target_ratio.value, current_result, TRUE),
                     TryStrategy(bg, fg, target_ratio.value, current_result, FALSE),
                     target_ratio.value)
            ELSE adjusted_fg(adjust_lightness_for_contrast(fg, bg, target_ratio.value))
    IN  current(get_target_ratio(target), calculate_contrast(fg, bg))

\* adjust_contrast
adjust_contrast(fg, bg, target, adjust) ==
    LET adjusted_fg(a) ==
            IF IsErr(a) THEN a ELSE Returned(a, bg, calculate_contrast(a, bg))
        adjusted_bg(a) ==
            IF IsErr(a) THEN a ELSE Returned(fg, a, calculate_contrast(fg, a))
        current(target_ratio, current_result) ==
            IF IsErr(target_ratio) THEN target_ratio
            ELSE IF MeetsTarget(current_result.ratio, target_ratio.value)
            THEN Returned(fg, bg, current_result)
            ELSE IF adjust = "fg"
            THEN adjusted_fg(adjust_lightness_for_contrast(fg, bg, target_ratio.value))
            ELSE IF adjust = "bg"
            THEN adjusted_bg(adjust_lightness_for_contrast(bg, fg, target_ratio.value))
            ELSE IF adjust = "auto"
            THEN ChooseStrategy(fg, bg,
                     TryStrategy(fg, bg, target_ratio.value, current_result, TRUE),
                     TryStrategy(bg, fg, target_ratio.value, current_result, FALSE),
                     target_ratio.value)
            ELSE Err("ValueError", "Invalid adjust target")
    IN  current(get_target_ratio(target), calculate_contrast(fg, bg))

-----------------------------------------------------------------------------
(* models.py: RGB, HSL and HSV, and the conversions between them *)

\* Python's None
None == [kind |-> "None"]

\* RGB(r, g, b), with the check of __post_init__
RGB(r, g, b) ==
    IF ~(0 <= r /\ r <= 255 /\ 0 <= g /\ g <= 255 /\ 0 <= b /\ b <= 255)
    THEN Err("ValueError", "RGB channel must be 0-255")
    ELSE [kind |-> "RGB", r |-> r, g |-> g, b |-> b]

\* HSL(h, s, l), with the checks of __post_init__
HSL(h, s, l) ==
    IF ~(0 <= h /\ h < 360 * ONE) THEN Err("ValueError", "HSL hue must be 0-359.99")
    ELSE IF ~(0 <= s /\ s <= 100 * ONE)
    THEN Err("ValueError", "HSL saturation must be 0-100")
    ELSE IF ~(0 <= l /\ l <= 100 * ONE)
    THEN Err("ValueError", "HSL lightness must be 0-100")
    ELSE [kind |-> "HSL", h |-> h, s |-> s, l |-> l]

\* HSV(h, s, v), with the checks of __post_init__
HSV(h, s, v) ==
    IF ~(0 <= h /\ h < 360 * ONE) THEN Err("ValueError", "HSV hue must be 0-359.99")
    ELSE IF ~(0 <= s /\ s <= 100 * ONE)
    THEN Err("ValueError", "HSV saturation must be 0-100")
    ELSE IF ~(0 <= v /\ v <= 100 * ONE)
    THEN Err("ValueError", "HSV value must be 0-100")
    ELSE [kind |-> "HSV", h |-> h, s |-> s, v |-> v]

\* the hue of RGB.to_hsl and RGB.to_hsv, in sixths of a turn
HueSixths(r_norm, g_norm, b_norm, max_val, diff) ==
    IF max_val = r_norm
    THEN Div(g_norm - b_norm, diff) + (IF g_norm < b_norm THEN 6 * ONE ELSE 0)
    ELSE IF max_val = g_norm THEN Div(b_norm - r_norm, diff) + 2 * ONE
    ELSE Div(r_norm - g_norm, diff) + 4 * ONE

\* RGB.to_hsl
to_hsl(self) ==
    LET spread(r_norm, g_norm, b_norm, max_val, min_val) ==
            IF max_val = min_val
            THEN HSL(0, 0, 100 * DivInt(max_val + min_val, 2))
            ELSE HSL(60 * HueSixths(r_norm, g_norm, b_norm, max_val, max_val - min_val),
                     100 * (IF DivInt(max_val + min_val, 2) < ONE \div 2
                            THEN Div(max_val - min_val, max_val + min_val)
                            ELSE Div(max_val - min_val, 2 * ONE - max_val - min_val)),
                     100 * DivInt(max_val + min_val, 2))
        norm(r_norm, g_norm, b_norm) ==
            spread(r_norm, g_norm, b_norm,
                   Max(r_norm, Max(g_norm, b_norm)), Min(r_norm, Min(g_norm, b_norm)))
    IN  norm(DivInt(self.r * ONE, 255), DivInt(self.g * ONE, 255),
             DivInt(self.b * ONE, 255))

\* RGB.to_hsv; the code computes in floats and converts the results with
\* Decimal(str(...))
to_hsv(self) ==
    LET spread(r_norm, g_norm, b_norm, max_val, min_val) ==
            HSV(IF max_val = min_val THEN 0
                ELSE 60 * HueSixths(r_norm, g_norm, b_norm, max_val, max_val - min_val),
                IF max_val = 0 THEN 0 ELSE 100 * Div(max_val - min_val, max_val),
                100 * max_val)
        norm(r_norm, g_norm, b_norm) ==
            spread(r_norm, g_norm, b_norm,
                   Max(r_norm, Max(g_norm, b_norm)), Min(r_norm, Min(g_norm, b_norm)))
    IN  norm(DivInt(self.r * ONE, 255), DivInt(self.g * ONE, 255),
             DivInt(self.b * ONE, 255))

\* int(round(x)) of a Decimal x >= 0: to the nearest whole number, a half to
\* the even one
round(x) ==
    IF x % ONE > ONE \div 2 \/ (x % ONE = ONE \div 2 /\ (x \div ONE) % 2 = 1)
    THEN (x \div ONE) + 1
    ELSE x \div ONE

\* HSL.to_rgb
hsl_to_rgb(self) ==
    LET chromatic(h_norm, p, q) ==
            RGB(round(255 * hue_to_rgb(p, q, h_norm + DivInt(ONE, 3))),
                round(255 * hue_to_rgb(p, q, h_norm)),
                round(255 * hue_to_rgb(p, q, h_norm - DivInt(ONE, 3))))
        with_q(h_norm, l_norm, q) == chromatic(h_norm, 2 * l_norm - q, q)
        gray(c) == RGB(c, c, c)
        norm(h_norm, s_norm, l_norm) ==
            IF s_norm = 0 THEN gray(Trunc(255 * l_norm))
            ELSE with_q(h_norm, l_norm,
                        IF l_norm < ONE \div 2
                        THEN Mul(l_norm, ONE + s_norm)
                        ELSE l_norm + s_norm - Mul(l_norm, s_norm))
    IN  norm(DivInt(self.h, 360), DivInt(self.s, 100), DivInt(self.l, 100))

\* HSV.to_rgb
hsv_to_rgb(self) ==
    LET sector(i, v_norm, p, q, t) ==
            IF i = 0 THEN <<v_norm, t, p>>
            ELSE IF i = 1 THEN <<q, v_norm, p>>
            ELSE IF i = 2 THEN <<p, v_norm, t>>
            ELSE IF i = 3 THEN <<p, q, v_norm>>
            ELSE IF i = 4 THEN <<t, p, v_norm>>
            ELSE <<v_norm, p, q>>
        rgb(c) == RGB(round(255 * c[1]), round(255 * c[2]), round(255 * c[3]))
        fract(i, f, s_norm, v_norm) ==
            rgb(sector(i, v_norm,
                       Mul(v_norm, ONE - s_norm),
                       Mul(v_norm, ONE - Mul(s_norm, f)),
                       Mul(v_norm, ONE - Mul(s_norm, ONE - f))))
        sectored(h_sector6, s_norm, v_norm) ==
            fract(Trunc(h_sector6), h_sector6 - Trunc(h_sector6) * ONE, s_norm, v_norm)
        gray(c) == RGB(c, c, c)
        norm(h_norm, s_norm, v_norm) ==
            IF s_norm = 0 THEN gray(Trunc(255 * v_norm))
            ELSE sectored(Sig(6 * h_norm), s_norm, v_norm)
    IN  norm(DivInt(self.h, 360), DivInt(self.s, 100), DivInt(self.v, 100))

-----------------------------------------------------------------------------
(* api.py: the Color that stores the representation it was made from and     *)
(* caches the others.  A read of a property is a sequence of steps: the     *)
(* check of the cached field, the conversion, and the store of the result   *)
(* with object.__setattr__; the steps of several readers interleave.        *)

\* Color(_rgb, _hsl, _hsv, _original_format), with the check of __post_init__
LazyColor(rgb, hsl, hsv, original_format) ==
    IF rgb = None /\ hsl = None /\ hsv = None
    THEN Err("ValueError", "At least one color representation must be provided")
    ELSE [kind |-> "api.Color", _rgb |-> rgb, _hsl |-> hsl, _hsv |-> hsv,
          _original_format |-> original_format]

\* Color.from_rgb, Color.from_hsl and Color.from_hsv
Constructed(op, value) ==
    IF op = "Color.from_rgb" THEN LazyColor(value, None, None, "rgb")
    ELSE IF op = "Color.from_hsl" THEN LazyColor(None, value, None, "hsl")
    ELSE LazyColor(None, None, value, "hsv")

\* the field that caches a property
FieldOf == ("rgb" :> "_rgb") @@ ("hsl" :> "_hsl") @@ ("hsv" :> "_hsv")

\* a check that only ever finds the rgb field set
IsCached_rgb_only(self, prop) == prop = "rgb" /\ self[FieldOf[prop]] # None

\* "if self._x is not None" at the head of a property
IsCached(self, prop) == self[FieldOf[prop]] # None

\* the conversion of Color.rgb when _rgb is not set
ComputedRgb(self) ==
    IF self._hsl # None THEN hsl_to_rgb(self._hsl)
    ELSE IF self._hsv # None THEN hsv_to_rgb(self._hsv)
    ELSE Err("RuntimeError", "No color representation available")

\* self.rgb.to_hsl() of Color.hsl and self.rgb.to_hsv() of Color.hsv
ConvertedFrom(rgb, prop) == IF prop = "hsl" THEN to_hsl(rgb) ELSE to_hsv(rgb)

\* a store that always writes the field of rgb
Stored_as_rgb(self, prop, value) == [self EXCEPT !["_rgb"] = value]

\* object.__setattr__(self, "_x", value)
Stored(self, prop, value) == [self EXCEPT ![FieldOf[prop]] = value]

\* what a read of the property prop returned or raised
Returned_by(prop, value) == [prop |-> prop, value |-> value]

\* a caller that has not read anything yet: the step it is at, the property
\* it reads, its local variable, what its last read returned and the number
\* of reads it has started
NotStarted ==
    [pc |-> "idle", prop |-> "", local |-> None, result |-> None, started |-> 0]

\* a reader inside the property prop, at the step pc, with its local variable
Reading(reader, pc, local) == [reader EXCEPT !.pc = pc, !.local = local]

-----------------------------------------------------------------------------
(* The calls the model makes.  The library keeps no state between calls: a  *)
(* behaviour is one call, drawn in the initial state, and its return.       *)

\* channel values k/n, k = 0..n
GrayLevels == 4

ChannelLevels == 2

Step(k, n) == (k * ONE) \div n

Grays == {Color(Step(k, GrayLevels), Step(k, GrayLevels), Step(k, GrayLevels)) :
            k \in 0 .. GrayLevels}

Grid == {Color(Step(i, ChannelLevels), Step(j, ChannelLevels), Step(k, ChannelLevels)) :
            i \in 0 .. ChannelLevels, j \in 0 .. ChannelLevels, k \in 0 .. ChannelLevels}

Black == Color(0, 0, 0)

White == Color(ONE, ONE, ONE)

\* the colors a call's other color is drawn from
Fixed == {Black, White, Color(ONE, 0, 0), Color(0, 0, ONE),
          Color(200000, 500000, 800000), Color(401900, 401900, 401900)}

Targets == {Level("A"), Level("AA"), Level("AAA"), Level("AA-large"),
            Level("INVALID"), Ratio(21 * ONE), Ratio(1500000)}

Modes == {"fg", "bg", "auto", "both"}

\* light colors of full chroma, whose candidates are clamped far from the hue
Saturated == {Color(0, ONE, 800000), Color(ONE, 800000, 200000)}

AdjustCalls ==
    [op : {"adjust_contrast"}, fg : Grid \cup Grays \cup Saturated, bg : Fixed,
     target : Targets, adjust : Modes]

\* the colors of the contrast calls; the last is the gray as light as pure red
Palette == Grid \cup Grays \cup Fixed \cup {Color(WCAG_R, WCAG_R, WCAG_R)}

ContrastCalls ==
    [op : {"calculate_contrast", "contrast_ratio"}, fg : Palette, bg : Palette]

\* components a Color is constructed from, some outside [0,1]
Components == {Step(k, GrayLevels) : k \in 0 .. GrayLevels}
                 \cup {-ONE, -1, ONE + 1, 2 * ONE}

\* channel values from_srgb is called with, some outside [0,255]
Channels == {-1, 0, 10, 11, 128, 255, 256}

ColorCalls ==
    [op : {"Color", "from_linear_rgb"}, r : Components, g : Components, b : Components]
      \cup [op : {"from_srgb"}, r : Channels, g : Channels, b : Channels]

\* every byte, in each of the three channels
Triples == UNION {{<<v, 10, 171>>, <<137, v, 10>>, <<171, 254, v>>} : v \in 0 .. 255}

\* the six hex digits of three bytes, in lower or upper case, with or without '#'
HexText(t, upper, hash) ==
    LET digits == IF upper THEN HexUpper ELSE HexLower
        two(n) == <<digits[(n \div 16) + 1], digits[(n % 16) + 1]>>
    IN  (IF hash THEN <<"#">> ELSE << >>) \o two(t[1]) \o two(t[2]) \o two(t[3])

SrgbCalls ==
    [op : {"srgb_round_trip"}, rgb : Triples]
      \cup {[op |-> "hex_round_trip", text |-> HexText(<<v, 10, 171>>, u, h)] :
              v \in 0 .. 255, u \in BOOLEAN, h \in BOOLEAN}

\* channel values k/n of the colors that are encoded and decoded
RoundTripLevels == 4

RoundTripGrid ==
    {Color(Step(i, RoundTripLevels), Step(j, RoundTripLevels), Step(k, RoundTripLevels)) :
        i \in 0 .. RoundTripLevels, j \in 0 .. RoundTripLevels, k \in 0 .. RoundTripLevels}
      \cup Fixed

\* hues in degrees, inside and outside [0,360)
Hues == {-720 * ONE, -360 * ONE, -92986729, 0, 14679851, 120 * ONE, 240 * ONE,
         360 * ONE, 720 * ONE}

\* luminances k/n, and some outside [0,1]
LumLevels == 8

Lums == {Step(k, LumLevels) : k \in 0 .. LumLevels}
          \cup {-ONE, -FLARE, -1, 1, ONE + 1, 4675000, 22 * ONE}

WcagCalls ==
    [op : {"wcag_round_trip", "luminance"}, color : RoundTripGrid]
      \cup [op : {"wcag_decode"}, h : Hues, c : {0}, l : Lums]

\* chroma percentages, and one below 0
Chromas == {-50 * ONE, 1, ONE, 50 * ONE, 100 * ONE}

\* the hues within one turn; at a whole turn other than 0 the code's float sine
\* is not 0, and at a luminance outside [0,1] the color it clamps to is decided
\* by that residue
CandidateHues == {h \in Hues : Abs(h) < 360 * ONE}

\* decodes at the luminances an adjustment can ask for, inside and outside [0,1]
CandidateCalls == [op : {"wcag_decode"}, h : CandidateHues, c : Chromas, l : Lums]

\* alpha values k/n, and some outside [0,1]
AlphaLevels == 4

Alphas == {Step(k, AlphaLevels) : k \in 0 .. AlphaLevels}
            \cup {-ONE, -1, 1, 333333, ONE - 1, ONE + 1, 2 * ONE}

AlphaCalls == [op : {"over"}, fg : Palette, bg : Palette, alpha : Alphas]

\* the callers that share one lazy Color
NumReaders == 2

Readers == 1 .. NumReaders

\* the reads that the callers start, all together
MaxReads == 2

Properties == {"rgb", "hsl", "hsv"}

\* the representations a lazy Color is made from
LazyCalls ==
    [op : {"Color.from_rgb"},
     value : {RGB(255, 0, 0), RGB(64, 128, 191), RGB(128, 128, 128)}]
      \cup [op : {"Color.from_hsl"},
            value : {HSL(120 * ONE, 50 * ONE, 50 * ONE), HSL(30 * ONE, 100 * ONE, 50 * ONE),
                     HSL(210 * ONE, 0, 40 * ONE)}]
      \cup [op : {"Color.from_hsv"},
            value : {HSV(120 * ONE, 50 * ONE, 50 * ONE), HSV(240 * ONE, 100 * ONE, 100 * ONE),
                     HSV(300 * ONE, 33 * ONE, 67 * ONE)}]

\* the arguments of get_target_ratio: the targets above, the fifth level,
\* names that are no level, and ratios at and outside the range 1 to 21
TargetArguments ==
    Targets \cup {Level("AAA-large"), Level("aa"), Level(""),
                  Ratio(ONE), Ratio(4500000), Ratio(5500000), Ratio(0), Ratio(22 * ONE)}

TargetCalls == [op : {"get_target_ratio"}, target : TargetArguments]

\* ratios 1 + 20k/n, and the ratios at and next to each threshold
RatioLevels == 10

Ratios ==
    {ONE + (k * 20 * ONE) \div RatioLevels : k \in 0 .. RatioLevels}
      \cup {3 * ONE - 1, 3 * ONE, 3 * ONE + 1, 4500000 - 1, 4500000,
            4500000 + 1, 7 * ONE - 1, 7 * ONE, 7 * ONE + 1}

\* the results the level checks are called on
Results == {ContrastResult(White, Black, ratio) : ratio \in Ratios}

\* the level names of WCAGLevel, and strings that are none of them
LevelNames == {"A", "AA", "AAA", "AA-large", "AAA-large", "INVALID", "aa", ""}

LevelCalls ==
    [op : {"meets_level"}, self : Results, level : LevelNames]
      \cup [op : {"compliance_summary"}, self : Results]

\* hues k * 360 / n, in whole degrees, and percentages k * 100 / n
HueLevels == 12

PercentLevels == 4

DecodeHues == {((k * 360) \div HueLevels) * ONE : k \in 0 .. HueLevels}
                \cup {ONE, 359 * ONE, 360 * ONE - 1000}

Percents == {(k * 100 * ONE) \div PercentLevels : k \in 0 .. PercentLevels}

DecodeCalls ==
    [op : {"HSLEncoding.decode", "HSVEncoding.decode"},
     h : DecodeHues, s : Percents, l : Percents]

\* the texts the parsers are called with: function notations, written with
\* each name, number, separator, percent sign and ending below
FunctionNames ==
    {<<"r", "g", "b">>,
     <<"h", "s", "l">>,
     <<"h", "s", "v">>,
     <<"w", "c", "a", "g", "-", "h", "c", "l">>,
     <<"R", "G", "B">>,
     <<"H", "s", "l">>,
     <<"h", "s", "V">>,
     <<"W", "c", "a", "g", "-", "H", "C", "L">>}

NumberTexts ==
    {<<"0">>, <<"5", "0">>, <<"1", "0", "0">>, <<"1", "0", "1">>, <<"2", "5", "5">>, <<"2", "5", "6">>, <<"3", "6", "0">>, <<"3", "6", "1">>, <<"4", "0", "0">>, <<"0", ".", "5">>, <<"1", ".", "2", ".", "3">>, <<".">>, <<"-", "1">>}

\* the arguments: three numbers with one of them replaced, or two, or four
BaseArguments == <<<<"0">>, <<"5", "0">>, <<"5", "0">>>>

ArgumentLists ==
    {[BaseArguments EXCEPT ![i] = n] : i \in 1 .. 3, n \in NumberTexts}
      \cup {SubSeq(BaseArguments, 1, 2), Append(BaseArguments, <<"0">>)}

RECURSIVE Joined(_, _, _)
Joined(arguments, separator, percent) ==
    IF Len(arguments) = 1 THEN arguments[1]
    ELSE Joined(SubSeq(arguments, 1, Len(arguments) - 1), separator, percent)
           \o separator \o arguments[Len(arguments)] \o percent

FunctionTexts ==
    {name \o <<"(">> \o Joined(arguments, separator, percent) \o <<")">> \o ending :
        name \in FunctionNames, arguments \in ArgumentLists,
        separator \in {<<",">>, <<",", " ">>}, percent \in {<< >>, <<"%">>},
        ending \in {<< >>, <<"x">>, <<" ">>}}

\* hex digits and other words, bare, after '#' or '##', and between blanks
HexWords ==
    {<<"f", "0">>, <<"f", "0", "0">>, <<"F", "0", "0">>,
     <<"a", "B", "c">>, <<"a", "b", "c", "d">>, <<"f", "a", "d", "e">>,
     <<"a", "b", "c", "d", "e">>, <<"f", "f", "0", "0", "0", "0">>, <<"F", "F", "0", "0", "a", "a">>,
     <<"0", "0", "f", "f", "F", "F">>, <<"c", "0", "f", "f", "e", "e", "0">>, <<"g", "g", "g">>,
     <<"g", "g", "g", "g", "g", "g">>}

NameWords ==
    {<<"r", "e", "d">>, <<"R", "E", "D">>, <<"R", "e", "d">>, <<"c", "o", "r", "a", "l">>,
     <<"C", "o", "r", "a", "l">>, <<"t", "a", "n">>, <<"T", "A", "N">>, <<"n", "a", "v", "y">>,
     <<"n", "o", "t", "-", "a", "-", "c", "o", "l", "o", "r">>, <<"r", "e", "d", "d", "i", "s", "h">>, <<>>}

WordTexts ==
    {before \o hash \o word \o after :
        before \in {<< >>, <<" ">>}, hash \in {<< >>, <<"#">>, <<"#", "#">>},
        word \in HexWords \cup NameWords, after \in {<< >>, <<"\n">>}}

ParseTexts == FunctionTexts \cup WordTexts

ParseCalls ==
    [op : {"auto_parse", "HexEncoding.parse", "RGBEncoding.parse", "HSLEncoding.parse",
           "HSVEncoding.parse", "WcagHCLEncoding.parse"},
     text : ParseTexts]
      \cup [op : {"from_hex", "to_hex", "str"}, text : WordTexts]

Pending == [kind |-> "pending"]

\* no lazy Color is shared in the behaviours of one call
NoShared == shared = Pending /\ readers = << >>

\* adjust_contrast(fg, bg, target, adjust) is called and returns or raises
AdjustContrast ==
    /\ call.op = "adjust_contrast"
    /\ ret = Pending
    /\ ret' = adjust_contrast(call.fg, call.bg, call.target, call.adjust)
    /\ UNCHANGED <<call, shared, readers>>

\* calculate_contrast(fg, bg)
CalculateContrast ==
    /\ call.op = "calculate_contrast"
    /\ ret = Pending
    /\ ret' = calculate_contrast(call.fg, call.bg)
    /\ UNCHANGED <<call, shared, readers>>

\* fg.contrast_ratio(bg)
ContrastRatio ==
    /\ call.op = "contrast_ratio"
    /\ ret = Pending
    /\ ret' = Decimal(contrast_ratio(call.fg, call.bg))
    /\ UNCHANGED <<call, shared, readers>>

\* Color(r, g, b)
Construct ==
    /\ call.op = "Color"
    /\ ret = Pending
    /\ ret' = Color(call.r, call.g, call.b)
    /\ UNCHANGED <<call, shared, readers>>

\* Color.from_linear_rgb(r, g, b)
FromLinearRgb ==
    /\ call.op = "from_linear_rgb"
    /\ ret = Pending
    /\ ret' = from_linear_rgb(call.r, call.g, call.b)
    /\ UNCHANGED <<call, shared, readers>>

\* Color.from_srgb(r, g, b)
FromSrgb ==
    /\ call.op = "from_srgb"
    /\ ret = Pending
    /\ ret' = from_srgb(call.r, call.g, call.b)
    /\ UNCHANGED <<call, shared, readers>>

\* Color.from_srgb(r, g, b).to_srgb()
SrgbRoundTrip ==
    /\ call.op = "srgb_round_trip"
    /\ ret = Pending
    /\ ret' = LET color == from_srgb(call.rgb[1], call.rgb[2], call.rgb[3])
              IN  IF IsErr(color) THEN color
                  ELSE [kind |-> "srgb", value |-> to_srgb(color)]
    /\ UNCHANGED <<call, shared, readers>>

\* str(HexEncoding.encode(HexEncoding.parse(text).decode()))
HexRoundTrip ==
    /\ call.op = "hex_round_trip"
    /\ ret = Pending
    /\ ret' = LET parsed == HexParse(call.text)
                  color  == HexDecode(parsed)
              IN  IF IsErr(parsed) THEN parsed
                  ELSE IF IsErr(color) THEN color
                  ELSE [kind |-> "text", value |-> HexStr(HexEncode(color))]
    /\ UNCHANGED <<call, shared, readers>>

\* WcagHCLEncoding.encode(color).decode()
WcagRoundTrip ==
    /\ call.op = "wcag_round_trip"
    /\ ret = Pending
    /\ ret' = WcagDecode(WcagEncode(call.color))
    /\ UNCHANGED <<call, shared, readers>>

\* WcagHCLEncoding(h, c, l).decode()
WcagDecodeCall ==
    /\ call.op = "wcag_decode"
    /\ ret = Pending
    /\ ret' = WcagDecode(WcagHCLEncoding(call.h, call.c, call.l))
    /\ UNCHANGED <<call, shared, readers>>

\* color.luminance()
Luminance ==
    /\ call.op = "luminance"
    /\ ret = Pending
    /\ ret' = Decimal(luminance(call.color))
    /\ UNCHANGED <<call, shared, readers>>

\* fg.with_alpha(alpha).over(bg)
Over ==
    /\ call.op = "over"
    /\ ret = Pending
    /\ ret' = LET fg_alpha(a) == IF IsErr(a) THEN a ELSE over(a, call.bg)
              IN  fg_alpha(with_alpha(call.fg, call.alpha))
    /\ UNCHANGED <<call, shared, readers>>

\* auto_parse(text)
AutoParse ==
    /\ call.op = "auto_parse"
    /\ ret = Pending
    /\ ret' = auto_parse(call.text)
    /\ UNCHANGED <<call, shared, readers>>

\* HexEncoding.parse(text)
ParseHex ==
    /\ call.op = "HexEncoding.parse"
    /\ ret = Pending
    /\ ret' = HexParse(call.text)
    /\ UNCHANGED <<call, shared, readers>>

\* RGBEncoding.parse(text)
ParseRGB ==
    /\ call.op = "RGBEncoding.parse"
    /\ ret = Pending
    /\ ret' = RGBParse(call.text)
    /\ UNCHANGED <<call, shared, readers>>

\* HSLEncoding.parse(text)
ParseHSL ==
    /\ call.op = "HSLEncoding.parse"
    /\ ret = Pending
    /\ ret' = HSLParse(call.text)
    /\ UNCHANGED <<call, shared, readers>>

\* HSVEncoding.parse(text)
ParseHSV ==
    /\ call.op = "HSVEncoding.parse"
    /\ ret = Pending
    /\ ret' = HSVParse(call.text)
    /\ UNCHANGED <<call, shared, readers>>

\* WcagHCLEncoding.parse(text)
ParseWcag ==
    /\ call.op = "WcagHCLEncoding.parse"
    /\ ret = Pending
    /\ ret' = WcagParse(call.text)
    /\ UNCHANGED <<call, shared, readers>>

\* Color.from_hex(text)
FromHex ==
    /\ call.op = "from_hex"
    /\ ret = Pending
    /\ ret' = from_hex(call.text)
    /\ UNCHANGED <<call, shared, readers>>

\* Color.from_hex(text).to_hex()
ToHex ==
    /\ call.op = "to_hex"
    /\ ret = Pending
    /\ ret' = LET color(c) ==
                      IF IsErr(c) THEN c ELSE [kind |-> "text", value |-> to_hex(c)]
              IN  color(from_hex(call.text))
    /\ UNCHANGED <<call, shared, readers>>

\* str(HexEncoding.parse(text))
StrHex ==
    /\ call.op = "str"
    /\ ret = Pending
    /\ ret' = LET parsed(e) ==
                      IF IsErr(e) THEN e ELSE [kind |-> "text", value |-> HexStr(e)]
              IN  parsed(HexParse(call.text))
    /\ UNCHANGED <<call, shared, readers>>

\* HSLEncoding(h, s, l).decode()
DecodeHSL ==
    /\ call.op = "HSLEncoding.decode"
    /\ ret = Pending
    /\ ret' = HSLDecode(HSLEncoding(call.h, call.s, call.l))
    /\ UNCHANGED <<call, shared, readers>>

\* HSVEncoding(h, s, v).decode()
DecodeHSV ==
    /\ call.op = "HSVEncoding.decode"
    /\ ret = Pending
    /\ ret' = HSVDecode(HSVEncoding(call.h, call.s, call.l))
    /\ UNCHANGED <<call, shared, readers>>

\* get_target_ratio(level)
GetTargetRatio ==
    /\ call.op = "get_target_ratio"
    /\ ret = Pending
    /\ ret' = get_target_ratio(call.target)
    /\ UNCHANGED <<call, shared, readers>>

\* result.meets_level(level)
MeetsLevel ==
    /\ call.op = "meets_level"
    /\ ret = Pending
    /\ ret' = meets_level(call.self, call.level)
    /\ UNCHANGED <<call, shared, readers>>

\* result.compliance_summary()
ComplianceSummary ==
    /\ call.op = "compliance_summary"
    /\ ret = Pending
    /\ ret' = compliance_summary(call.self)
    /\ UNCHANGED <<call, shared, readers>>

\* the reads started so far
RECURSIVE StartedBy(_)
StartedBy(t) == IF t = 0 THEN 0 ELSE readers[t].started + StartedBy(t - 1)

\* a caller starts to read a property of the shared Color
StartRead(t, prop) ==
    /\ shared # Pending
    /\ readers[t].pc = "idle"
    /\ StartedBy(NumReaders) < MaxReads
    /\ readers' = [readers EXCEPT ![t] = [@ EXCEPT !.pc = "check", !.prop = prop,
                                                  !.started = @ + 1]]
    /\ UNCHANGED <<call, ret, shared>>

\* the property leaves with a value or an error
Returns(t, value) ==
    readers' = [readers EXCEPT ![t] = [@ EXCEPT !.pc = "idle", !.local = None,
                                                !.result = Returned_by(readers[t].prop, value)]]

\* "if self._x is not None: return self._x" of the property that is read
CheckCached(t) ==
    /\ readers[t].pc = "check"
    /\ IF IsCached(shared, readers[t].prop)
       THEN Returns(t, shared[FieldOf[readers[t].prop]])
       ELSE readers' = [readers EXCEPT ![t].pc =
                            IF readers[t].prop = "rgb" THEN "compute_rgb" ELSE "check_rgb"]
    /\ UNCHANGED <<call, ret, shared>>

\* self.rgb inside Color.hsl and Color.hsv: the check of _rgb
CheckRgb(t) ==
    /\ readers[t].pc = "check_rgb"
    /\ readers' = [readers EXCEPT ![t] =
                     IF IsCached(shared, "rgb")
                     THEN Reading(@, "convert", shared._rgb)
                     ELSE Reading(@, "compute_rgb", None)]
    /\ UNCHANGED <<call, ret, shared>>

\* rgb = self._hsl.to_rgb() or self._hsv.to_rgb()
ComputeRgb(t) ==
    /\ readers[t].pc = "compute_rgb"
    /\ IF IsErr(ComputedRgb(shared))
       THEN Returns(t, ComputedRgb(shared))
       ELSE readers' = [readers EXCEPT ![t] = Reading(@, "store_rgb", ComputedRgb(shared))]
    /\ UNCHANGED <<call, ret, shared>>

\* object.__setattr__(self, "_rgb", rgb); return rgb
StoreRgb(t) ==
    /\ readers[t].pc = "store_rgb"
    /\ shared' = Stored(shared, "rgb", readers[t].local)
    /\ IF readers[t].prop = "rgb"
       THEN Returns(t, readers[t].local)
       ELSE readers' = [readers EXCEPT ![t].pc = "convert"]
    /\ UNCHANGED <<call, ret>>

\* hsl = self.rgb.to_hsl(), hsv = self.rgb.to_hsv()
Convert(t) ==
    /\ readers[t].pc = "convert"
    /\ IF IsErr(ConvertedFrom(readers[t].local, readers[t].prop))
       THEN Returns(t, ConvertedFrom(readers[t].local, readers[t].prop))
       ELSE readers' = [readers EXCEPT ![t] =
                          Reading(@, "store", ConvertedFrom(readers[t].local, readers[t].prop))]
    /\ UNCHANGED <<call, ret, shared>>

\* object.__setattr__(self, "_hsl", hsl) or (self, "_hsv", hsv); return it
Store(t) ==
    /\ readers[t].pc = "store"
    /\ shared' = Stored(shared, readers[t].prop, readers[t].local)
    /\ Returns(t, readers[t].local)
    /\ UNCHANGED <<call, ret>>

InitAdjust ==
    call \in AdjustCalls \cup TargetCalls \cup CandidateCalls /\ ret = Pending /\ NoShared

NextAdjust == AdjustContrast \/ GetTargetRatio \/ WcagDecodeCall

SpecAdjust == InitAdjust /\ [][NextAdjust]_vars

InitContrast == call \in ContrastCalls /\ ret = Pending /\ NoShared

NextContrast == CalculateContrast \/ ContrastRatio

SpecContrast == InitContrast /\ [][NextContrast]_vars

InitColor == call \in ColorCalls /\ ret = Pending /\ NoShared

NextColor == Construct \/ FromLinearRgb \/ FromSrgb

SpecColor == InitColor /\ [][NextColor]_vars

InitSrgb == call \in SrgbCalls /\ ret = Pending /\ NoShared

NextSrgb == SrgbRoundTrip \/ HexRoundTrip

SpecSrgb == InitSrgb /\ [][NextSrgb]_vars

InitWcag == call \in WcagCalls /\ ret = Pending /\ NoShared

NextWcag == WcagRoundTrip \/ WcagDecodeCall \/ Luminance

SpecWcag == InitWcag /\ [][NextWcag]_vars

InitAlpha == call \in AlphaCalls /\ ret = Pending /\ NoShared

NextAlpha == Over

SpecAlpha == InitAlpha /\ [][NextAlpha]_vars

InitParse == call \in ParseCalls /\ ret = Pending /\ NoShared

NextParse ==
    \/ AutoParse \/ ParseHex \/ ParseRGB \/ ParseHSL \/ ParseHSV \/ ParseWcag
    \/ FromHex \/ ToHex \/ StrHex

SpecParse == InitParse /\ [][NextParse]_vars

InitDecode == call \in DecodeCalls /\ ret = Pending /\ NoShared

NextDecode == DecodeHSL \/ DecodeHSV

SpecDecode == InitDecode /\ [][NextDecode]_vars

InitLevels == call \in LevelCalls /\ ret = Pending /\ NoShared

NextLevels == MeetsLevel \/ ComplianceSummary

SpecLevels == InitLevels /\ [][NextLevels]_vars

\* one lazy Color, constructed, and callers that have not read it yet
InitLazy ==
    /\ call \in LazyCalls
    /\ ret = Pending
    /\ shared = Constructed(call.op, call.value)
    /\ readers = [t \in Readers |-> NotStarted]

NextLazy ==
    \E t \in Readers :
        \/ \E prop \in Properties : StartRead(t, prop)
        \/ CheckCached(t) \/ CheckRgb(t) \/ ComputeRgb(t) \/ StoreRgb(t)
        \/ Convert(t) \/ Store(t)

SpecLazy == InitLazy /\ [][NextLazy]_vars

Init ==
    \/ InitAdjust \/ InitContrast \/ InitColor \/ InitSrgb \/ InitWcag
    \/ InitAlpha \/ InitParse \/ InitDecode \/ InitLevels \/ InitLazy

Next ==
    \/ NextAdjust \/ NextContrast \/ NextColor \/ NextSrgb \/ NextWcag
    \/ NextAlpha \/ NextParse \/ NextDecode \/ NextLevels \/ NextLazy

Spec == Init /\ [][Next]_vars

-----------------------------------------------------------------------------
(* Properties of adjust_contrast, checked under SpecAdjust *)

\* the call has returned or raised
Done == ret # Pending

\* the numeric target of the call, when its target is valid
HasTarget == ~IsErr(get_target_ratio(call.target))

TargetRatio == get_target_ratio(call.target).value

\* calculate_contrast on the colors the call was given
CurrentResult == calculate_contrast(call.fg, call.bg)

\* C1: a pair whose ratio is already at or above the target (compared exactly)
\* comes back as it was given, with the result measured on it, in every mode.
C1_NoOpOnCompliantPair ==
    (call.op = "adjust_contrast" /\ Done /\ HasTarget
        /\ CurrentResult.ratio >= TargetRatio)
    => ret = Returned(call.fg, call.bg, CurrentResult)

\* a pair exactly at the target, in a mode that no branch handles, has returned
C1_Witness ==
    /\ call.op = "adjust_contrast" /\ Done /\ HasTarget
    /\ CurrentResult.ratio = TargetRatio
    /\ call.adjust = "both"
    /\ call.fg # call.bg
    /\ ret = Returned(call.fg, call.bg, CurrentResult)

\* luminances k/n at which the adjustable color is tried
LumSteps == 4

\* some luminance in [0,1], at the hue and chroma of the adjustable color, reaches
\* the target against the fixed color
Reachable(adjustable, fixed_color, target_ratio) ==
    \E k \in 0 .. LumSteps :
        LET wcag == WcagEncode(adjustable)
            tried == WcagDecode(WcagHCLEncoding(wcag.h, wcag.c, Step(k, LumSteps)))
        IN  ~IsErr(tried) /\ contrast_ratio(tried, fixed_color) >= target_ratio

\* the color a single-target mode adjusts, and the one it holds fixed
Adjustable == IF call.adjust = "fg" THEN call.fg ELSE call.bg

Held == IF call.adjust = "fg" THEN call.bg ELSE call.fg

\* a call in fg or bg mode on a pair below a target that the adjustable color
\* can reach
C2_Case ==
    /\ call.op = "adjust_contrast" /\ Done /\ HasTarget
    /\ call.adjust \in {"fg", "bg"}
    /\ CurrentResult.ratio < TargetRatio
    /\ Reachable(Adjustable, Held, TargetRatio)

\* C2: in fg or bg mode, a pair below the target whose adjustable color can
\* reach the target at some luminance in [0,1] comes back with a measured ratio
\* of at least the target less 0.01.
C2_Convergence ==
    C2_Case => /\ ret.kind = "tuple"
               /\ calculate_contrast(ret.fg, ret.bg).ratio >= TargetRatio - 10000

\* a chromatic foreground was moved to reach the target
C2_Witness ==
    /\ C2_Case
    /\ call.adjust = "fg"
    /\ WcagEncode(call.fg).c > 0
    /\ ret.kind = "tuple"
    /\ ret.fg # call.fg
    /\ calculate_contrast(ret.fg, ret.bg).ratio >= TargetRatio - 10000

\* C3: the color that is not adjusted comes back identical: the background in fg
\* mode, the foreground in bg mode, and at least one of the two in auto mode.
C3_UnadjustedColorUnchanged ==
    (call.op = "adjust_contrast" /\ Done /\ ret.kind = "tuple")
    => /\ call.adjust = "fg" => ret.bg = call.bg
       /\ call.adjust = "bg" => ret.fg = call.fg
       /\ call.adjust = "auto" => (ret.fg = call.fg \/ ret.bg = call.bg)

\* an auto call changed one color and kept the other
C3_Witness ==
    /\ call.op = "adjust_contrast" /\ Done /\ ret.kind = "tuple"
    /\ call.adjust = "auto"
    /\ ret.bg # call.bg
    /\ ret.fg = call.fg

-----------------------------------------------------------------------------
(* Properties of the contrast ratio, checked under SpecContrast *)

\* the ratio a contrast call returned
ReturnedRatio == IF call.op = "calculate_contrast" THEN ret.ratio ELSE ret.value

ContrastDone == call.op \in {"calculate_contrast", "contrast_ratio"} /\ Done

\* C4: calculate_contrast and Color.contrast_ratio give (Lmax + 0.05) / (Lmin +
\* 0.05), the lighter luminance in the numerator, and so a ratio from 1 to 21.
C4_RatioLighterOverDarker ==
    ContrastDone
    => /\ ReturnedRatio =
              Div(Max(luminance(call.fg), luminance(call.bg)) + FLARE,
                  Min(luminance(call.fg), luminance(call.bg)) + FLARE)
       /\ ONE <= ReturnedRatio
       /\ ReturnedRatio <= 21 * ONE

\* calculate_contrast measured a darker foreground on a lighter background, at
\* the highest ratio there is
C4_Witness ==
    /\ ContrastDone
    /\ call.op = "calculate_contrast"
    /\ luminance(call.fg) < luminance(call.bg)
    /\ ReturnedRatio = 21 * ONE

\* C5: the ratio does not depend on the order of the two colors, for
\* calculate_contrast and for Color.contrast_ratio, equal luminances included.
C5_Symmetric ==
    ContrastDone
    => ReturnedRatio =
           IF call.op = "calculate_contrast"
           THEN calculate_contrast(call.bg, call.fg).ratio
           ELSE contrast_ratio(call.bg, call.fg)

\* contrast_ratio measured two different colors of different luminance, the
\* lighter one given second
C5_Witness ==
    /\ ContrastDone
    /\ call.op = "contrast_ratio"
    /\ luminance(call.fg) < luminance(call.bg)
    /\ ReturnedRatio > ONE
    /\ ReturnedRatio = contrast_ratio(call.bg, call.fg)

-----------------------------------------------------------------------------
(* Properties of Color construction, checked under SpecColor *)

OutOfRange(v) == v < 0 \/ v > ONE

\* the error names a component that is outside [0,1]
NamesComponent(error, r, g, b) ==
    /\ error.kind = "error"
    /\ error.type = "ValueError"
    /\ \/ error.what = "Color red must be 0-1" /\ OutOfRange(r)
       \/ error.what = "Color green must be 0-1" /\ OutOfRange(g)
       \/ error.what = "Color blue must be 0-1" /\ OutOfRange(b)

\* C6: a Color that exists has its three components in [0,1]; constructing one
\* with a component outside [0,1], directly or through from_linear_rgb, fails
\* with an error that names such a component, and from_srgb gives a Color in
\* range or fails so.
C6_ComponentsInRange ==
    (call.op \in {"Color", "from_linear_rgb", "from_srgb"} /\ Done)
    => /\ ret.kind = "Color"
              => ~OutOfRange(ret.red) /\ ~OutOfRange(ret.green) /\ ~OutOfRange(ret.blue)
       /\ ret.kind # "Color" => ret.kind = "error" /\ ret.type = "ValueError"
       /\ call.op \in {"Color", "from_linear_rgb"}
              => IF OutOfRange(call.r) \/ OutOfRange(call.g) \/ OutOfRange(call.b)
                 THEN NamesComponent(ret, call.r, call.g, call.b)
                 ELSE ret = [kind |-> "Color", red |-> call.r, green |-> call.g,
                             blue |-> call.b]

\* from_linear_rgb was given a green just below 0 and failed naming it
C6_Witness ==
    /\ call.op = "from_linear_rgb" /\ Done
    /\ ~OutOfRange(call.r)
    /\ call.g = -1
    /\ ret = [kind |-> "error", type |-> "ValueError", what |-> "Color green must be 0-1"]

-----------------------------------------------------------------------------
(* Properties of the sRGB and hex conversions, checked under SpecSrgb *)

\* str.lower of a hex digit
LowerDigit(ch) ==
    IF \E i \in 1 .. 16 : HexUpper[i] = ch
    THEN HexLower[CHOOSE i \in 1 .. 16 : HexUpper[i] = ch]
    ELSE ch

\* the text lower-cased, with a leading '#'
Normalized(text) ==
    LET digits == IF text[1] = "#" THEN Tail(text) ELSE text
    IN  <<"#">> \o [i \in 1 .. Len(digits) |-> LowerDigit(digits[i])]

\* C7: the bytes r, g, b come back exactly from Color.from_srgb(r, g, b).to_srgb(),
\* and a six-digit hex text comes back from parse, decode, encode and str
\* lower-cased with a leading '#'.
C7_SrgbHexRoundTrip ==
    /\ (call.op = "srgb_round_trip" /\ Done)
           => ret = [kind |-> "srgb", value |-> call.rgb]
    /\ (call.op = "hex_round_trip" /\ Done)
           => ret = [kind |-> "text", value |-> Normalized(call.text)]

\* an upper-case text without '#' came back lower-cased with it
C7_Witness ==
    /\ call.op = "hex_round_trip" /\ Done
    /\ call.text = <<"C", "7", "0", "A", "A", "B">>
    /\ ret = [kind |-> "text", value |-> <<"#", "c", "7", "0", "a", "a", "b">>]

-----------------------------------------------------------------------------
(* Properties of the WCAG-HCL encoding, checked under SpecWcag *)

\* a and b are within 0.001 of each other
Within(a, b) == Abs(a - b) < 1000

\* C8: encoding a color to WCAG-HCL and decoding it gives the color back within
\* 0.001 on each channel.
C8_WcagRoundTrip ==
    (call.op = "wcag_round_trip" /\ Done)
    => /\ ret.kind = "Color"
       /\ Within(ret.red, call.color.red)
       /\ Within(ret.green, call.color.green)
       /\ Within(ret.blue, call.color.blue)

\* a chromatic color with a negative hue came back
C8_Witness ==
    /\ call.op = "wcag_round_trip" /\ Done
    /\ WcagEncode(call.color).c > 50 * ONE
    /\ WcagEncode(call.color).h < -90 * ONE
    /\ ret.kind = "Color"
    /\ Within(ret.red, call.color.red)
    /\ Within(ret.green, call.color.green)
    /\ Within(ret.blue, call.color.blue)

\* l clamped to [0,1]
Clamped(l) == IF l < 0 THEN 0 ELSE IF l > ONE THEN ONE ELSE l

Gray(l) == [kind |-> "Color", red |-> l, green |-> l, blue |-> l]

\* C9: decoding (h, chroma 0, l) gives the gray with red = green = blue = l
\* clamped to [0,1], whatever the hue; for l in [0,1] its luminance is l within
\* 0.001.
C9_AchromaticDecode ==
    (call.op = "wcag_decode" /\ call.c = 0 /\ Done)
    => /\ ret = Gray(Clamped(call.l))
       /\ ret = WcagDecode(WcagHCLEncoding(0, 0, call.l))
       /\ ~OutOfRange(call.l) => ret.red = call.l /\ Within(luminance(ret), call.l)

\* a hue of two turns backwards and a luminance inside (0,1)
C9_Witness ==
    /\ call.op = "wcag_decode" /\ call.c = 0 /\ Done
    /\ call.h = -720 * ONE
    /\ 0 < call.l /\ call.l < ONE
    /\ ret = Gray(call.l)

\* the weights of red, green and blue in the luminance, in millionths
Weights == <<212600, 715200, 72200>>

\* 0.2126 red + 0.7152 green + 0.0722 blue, each product rounded
WeightedSum(color) ==
    Mul(Weights[1], color.red) + Mul(Weights[2], color.green)
      + Mul(Weights[3], color.blue)

\* no channel of a is above the same channel of b
Darker(a, b) == a.red <= b.red /\ a.green <= b.green /\ a.blue <= b.blue

\* C10: luminance() is 0.2126 red + 0.7152 green + 0.0722 blue (to the rounding
\* of the three products), is the l of the color's WCAG-HCL encoding, lies in
\* [0,1], and grows with the channels: black has the lowest, 0, and white the
\* highest, 1.
C10_Luminance ==
    (call.op = "luminance" /\ Done)
    => /\ Abs(ret.value - WeightedSum(call.color)) <= 2
       /\ ret.value = WcagEncode(call.color).l
       /\ 0 <= ret.value /\ ret.value <= ONE
       /\ luminance(Black) = 0 /\ luminance(White) = ONE
       /\ \A other \in RoundTripGrid :
              Darker(other, call.color) => luminance(other) <= ret.value

\* the luminance of a gray, which has no chroma, is its level
C10_Witness ==
    /\ call.op = "luminance" /\ Done
    /\ WcagEncode(call.color).c = 0
    /\ 0 < call.color.red /\ call.color.red < ONE
    /\ ret.value = call.color.red

-----------------------------------------------------------------------------
(* Properties of alpha compositing, checked under SpecAlpha *)

\* channel c of the composite is in [0,1], at the fraction alpha of the way from
\* the background to the foreground (to the last place, which is rounded)
Blended(c, fg, bg, alpha) ==
    /\ 0 <= c /\ c <= ONE
    /\ Abs((c - bg) - Mul(alpha, fg - bg)) <= 1

\* C11: for alpha in [0,1], fg.with_alpha(alpha).over(bg) returns the Color whose
\* linear channels are alpha*fg + (1-alpha)*bg: in [0,1], fg at alpha = 1 and bg
\* at alpha = 0; an alpha outside [0,1] fails in the ColorWithAlpha constructor.
C11_AlphaCompositing ==
    (call.op = "over" /\ Done)
    => IF 0 <= call.alpha /\ call.alpha <= ONE
       THEN /\ ret.kind = "Color"
            /\ Blended(ret.red, call.fg.red, call.bg.red, call.alpha)
            /\ Blended(ret.green, call.fg.green, call.bg.green, call.alpha)
            /\ Blended(ret.blue, call.fg.blue, call.bg.blue, call.alpha)
            /\ (call.alpha = ONE => ret = call.fg)
            /\ (call.alpha = 0 => ret = call.bg)
       ELSE ret = Err("ValueError", "Alpha must be 0-1")

\* half-transparent red over white has been composited
C11_Witness ==
    /\ call.op = "over" /\ Done
    /\ call.fg = Color(ONE, 0, 0) /\ call.bg = White
    /\ call.alpha = ONE \div 2
    /\ ret = Color(ONE, ONE \div 2, ONE \div 2)

-----------------------------------------------------------------------------
(* Properties of the text parsers, checked under SpecParse *)

\* the text of the call without the blanks around it
Stripped == strip(call.text)

\* the error of a text that no format claims
Unrecognized == Err("ValueError", "Cannot auto-detect color format")

\* an optional '#' followed by exactly 3 or exactly 6 hex digits
HexShape(t) ==
    LET digits(d) == MatchesHex(d, 3) \/ MatchesHex(d, 6)
    IN  digits(IF t # << >> /\ t[1] = "#" THEN Tail(t) ELSE t)

\* the format that claims the text t, in the order hex, rgb(, hsl(, hsv(,
\* wcag-hcl(, color name; hex tells whether t counts as a hex text
Format(t, hex) ==
    IF hex THEN "hex"
    ELSE IF startswith(t, <<"r", "g", "b", "(">>) THEN "rgb"
    ELSE IF startswith(t, <<"h", "s", "l", "(">>) THEN "hsl"
    ELSE IF startswith(t, <<"h", "s", "v", "(">>) THEN "hsv"
    ELSE IF startswith(t, <<"w", "c", "a", "g", "-", "h", "c", "l", "(">>) THEN "wcag-hcl"
    ELSE IF lower(t) \in DOMAIN CSS_NAMED_COLORS THEN "name"
    ELSE "none"

\* the encoding type of each function format and the first word of its errors
EncodingOf ==
    ("rgb" :> "RGBEncoding") @@ ("hsl" :> "HSLEncoding") @@ ("hsv" :> "HSVEncoding")
      @@ ("wcag-hcl" :> "WcagHCLEncoding")

\* the errors of a format's parser: its own format error, a range error, or
\* the failed conversion of a number
ErrorOf(format, error) ==
    \/ error.type = "InvalidOperation"
    \/ error.what \in
         CASE format = "hex" -> {"Invalid hex format"}
           [] format = "rgb" -> {"Invalid RGB format", "RGB red must be 0-255",
                                 "RGB green must be 0-255", "RGB blue must be 0-255"}
           [] format = "hsl" -> {"Invalid HSL format", "HSL hue must be 0-360",
                                 "HSL saturation must be 0-100",
                                 "HSL lightness must be 0-100"}
           [] format = "hsv" -> {"Invalid HSV format", "HSV hue must be 0-360",
                                 "HSV saturation must be 0-100",
                                 "HSV value must be 0-100"}
           [] format = "wcag-hcl" -> {"Invalid wcag-hcl format"}

\* the result is what the format that claimed the text t gives: an encoding of
\* its type or one of its errors; a name gives the hex encoding of its table
\* value; a text that no format claims is unrecognized
Decides(format, t, result) ==
    IF format = "none" THEN result = Unrecognized
    ELSE IF format = "name"
    THEN result.kind = "HexEncoding" /\ HexStr(result) = CSS_NAMED_COLORS[lower(t)]
    ELSE IF IsErr(result) THEN ErrorOf(format, result)
    ELSE result.kind = (IF format = "hex" THEN "HexEncoding" ELSE EncodingOf[format])

upper(text) ==
    [i \in 1 .. Len(text) |->
        IF \E k \in 1 .. 26 : LowerCase[k] = text[i]
        THEN UpperCase[CHOOSE k \in 1 .. 26 : LowerCase[k] = text[i]]
        ELSE text[i]]

\* the parsers of the function notations, and all parsers of encodings
FunctionParsers ==
    {"RGBEncoding.parse", "HSLEncoding.parse", "HSVEncoding.parse",
     "WcagHCLEncoding.parse"}

Parsers == FunctionParsers \cup {"HexEncoding.parse"}

\* what the parser op, or auto_parse, gives for the text t
Parsed(op, t) ==
    CASE op = "auto_parse" -> auto_parse(t)
      [] op = "HexEncoding.parse" -> HexParse(t)
      [] op = "RGBEncoding.parse" -> RGBParse(t)
      [] op = "HSLEncoding.parse" -> HSLParse(t)
      [] op = "HSVEncoding.parse" -> HSVParse(t)
      [] op = "WcagHCLEncoding.parse" -> WcagParse(t)

\* C13: a text that auto_parse or a parser accepts is accepted, with the same
\* encoding value, when it is written in capitals or in small letters.
C13_CaseInsensitive ==
    (call.op \in Parsers \cup {"auto_parse"} /\ Done /\ ~IsErr(ret))
    => /\ Parsed(call.op, upper(call.text)) = ret
       /\ Parsed(call.op, lower(call.text)) = ret

\* the six lower-case digits a hex text of the accepted forms stands for
Expanded(t) ==
    LET digits(d) ==
            lower(IF Len(d) = 3 THEN <<d[1], d[1], d[2], d[2], d[3], d[3]>> ELSE d)
    IN  digits(IF t[1] = "#" THEN Tail(t) ELSE t)

\* C14: Color.from_hex and HexEncoding.parse accept 3 or 6 hex digits in either
\* case, with or without one leading '#', the 3 digits doubled one by one; and
\* to_hex and str give '#' and the six digits in lower case.
C14_HexText ==
    (call.op \in {"from_hex", "to_hex", "str", "HexEncoding.parse"} /\ Done
        /\ HexShape(call.text))
    => CASE call.op = "from_hex" ->
              ret.kind = "Color" /\ to_hex(ret) = <<"#">> \o Expanded(call.text)
         [] call.op = "HexEncoding.parse" ->
              ret.kind = "HexEncoding" /\ HexStr(ret) = <<"#">> \o Expanded(call.text)
         [] OTHER ->
              ret = [kind |-> "text", value |-> <<"#">> \o Expanded(call.text)]

\* the pattern of each function notation
PatternOf ==
    ("RGBEncoding.parse" :> FunctionPattern(<<"r", "g", "b">>, Digits, FALSE, FALSE))
      @@ ("HSLEncoding.parse" :> FunctionPattern(<<"h", "s", "l">>, NumChars, TRUE, TRUE))
      @@ ("HSVEncoding.parse" :> FunctionPattern(<<"h", "s", "v">>, NumChars, TRUE, TRUE))
      @@ ("WcagHCLEncoding.parse" :>
            FunctionPattern(<<"w", "c", "a", "g", "-", "h", "c", "l">>,
                            NumChars, TRUE, FALSE))

\* the text of the call, stripped, against the pattern of the parser called
Matched == Match(Stripped, 1, PatternOf[call.op], 1, << >>)

\* the three fields of the text are numbers
WellFormed == Matched # NoMatch /\ \A i \in 1 .. 3 : ~IsErr(DecimalOf(Matched.groups[i]))

\* the upper bounds of the fields: channels to 255, a hue to 360, a saturation,
\* lightness or value to 100 (chroma and luminance are given no bound)
UpperBounds ==
    ("RGBEncoding.parse" :> <<255, 255, 255>>)
      @@ ("HSLEncoding.parse" :> <<360, 100, 100>>)
      @@ ("HSVEncoding.parse" :> <<360, 100, 100>>)
      @@ ("WcagHCLEncoding.parse" :> <<360>>)

RangeErrors ==
    ("RGBEncoding.parse" :>
        <<"RGB red must be 0-255", "RGB green must be 0-255", "RGB blue must be 0-255">>)
      @@ ("HSLEncoding.parse" :>
        <<"HSL hue must be 0-360", "HSL saturation must be 0-100",
          "HSL lightness must be 0-100">>)
      @@ ("HSVEncoding.parse" :>
        <<"HSV hue must be 0-360", "HSV saturation must be 0-100",
          "HSV value must be 0-100">>)
      @@ ("WcagHCLEncoding.parse" :>
        <<"wcag-hcl hue must be 0-360">>)

\* field i of the text has a bound and is above it
Above(i) ==
    /\ i \in DOMAIN UpperBounds[call.op]
    /\ DecimalOf(Matched.groups[i]).value > UpperBounds[call.op][i] * ONE

\* C15: a text of rgb, hsl, hsv or wcag-hcl with a field outside its range fails
\* with the range error that names a field outside its range and its bound.
C15_RangeChecked ==
    (call.op \in FunctionParsers /\ Done /\ WellFormed /\ \E i \in 1 .. 3 : Above(i))
    => /\ IsErr(ret)
       /\ \E i \in 1 .. 3 : Above(i) /\ ret.what = RangeErrors[call.op][i]

\* the whole stripped text is of the grammar of the parser called
WholeMatch ==
    IF call.op = "HexEncoding.parse" THEN HexShape(Stripped)
    ELSE WellFormed /\ Matched.end = Len(Stripped) + 1

FormatErrors ==
    ("HexEncoding.parse" :> "Invalid hex format")
      @@ ("RGBEncoding.parse" :> "Invalid RGB format")
      @@ ("HSLEncoding.parse" :> "Invalid HSL format")
      @@ ("HSVEncoding.parse" :> "Invalid HSV format")
      @@ ("WcagHCLEncoding.parse" :> "Invalid wcag-hcl format")

\* C16: a parser returns an encoding only for a text that is wholly of its
\* grammar; any other text fails with the parser's format error, a ValueError.
C16_WholeTextOrFormatError ==
    (call.op \in Parsers /\ Done /\ ~WholeMatch)
    => ret = Err("ValueError", FormatErrors[call.op])

-----------------------------------------------------------------------------
(* Properties of the HSL and HSV decoders, checked under SpecDecode *)

\* what the decoder of the call gives at the hue h
DecodedAt(h) ==
    IF call.op = "HSLEncoding.decode" THEN from_hsl(h, call.s, call.l)
    ELSE from_hsv(h, call.s, call.l)

\* C17: an HSL or HSV encoding with hue in [0,360], saturation in [0,100] and
\* lightness or value in [0,100] decodes to a Color with components in [0,1],
\* and at hue 360 to the Color of hue 0.
C17_DecodeAccepted ==
    (call.op \in {"HSLEncoding.decode", "HSVEncoding.decode"} /\ Done)
    => /\ ret.kind = "Color"
       /\ 0 <= ret.red /\ ret.red <= ONE
       /\ 0 <= ret.green /\ ret.green <= ONE
       /\ 0 <= ret.blue /\ ret.blue <= ONE
       /\ (call.h = 360 * ONE => ret = DecodedAt(0))

-----------------------------------------------------------------------------
(* Properties of adjust_contrast's mode and target handling, under SpecAdjust *)

\* the modes that a branch of adjust_contrast handles
HandledModes == {"fg", "bg", "auto"}

InvalidModeError == Err("ValueError", "Invalid adjust target")

\* C18 as stated: adjust_contrast fails with the invalid-mode error whenever
\* the mode is not fg, bg or auto, for every fg, bg and target.
C18_AsStated ==
    (call.op = "adjust_contrast" /\ Done /\ call.adjust \notin HandledModes)
    => ret = InvalidModeError

\* C18: adjust_contrast fails with the invalid-mode error, and returns no
\* colors, whenever the mode is not fg, bg or auto, the target is valid and
\* the pair does not already meet it.
C18_InvalidMode ==
    (call.op = "adjust_contrast" /\ Done /\ call.adjust \notin HandledModes
        /\ HasTarget /\ CurrentResult.ratio < TargetRatio)
    => ret = InvalidModeError

\* a pair below a valid target was given in mode "both", and the call raised
C18_Witness ==
    /\ call.op = "adjust_contrast" /\ Done
    /\ call.adjust = "both"
    /\ call.target = Level("AA")
    /\ CurrentResult.ratio < TargetRatio
    /\ ret = InvalidModeError

\* the error of a level name that is none of the five
UnknownLevelError == Err("ValueError", "Unknown WCAG level")

\* the thresholds of the five named levels
NamedThresholds ==
    ("A" :> 1 * ONE) @@ ("AA" :> 4500000) @@ ("AAA" :> 7 * ONE)
      @@ ("AA-large" :> 3 * ONE) @@ ("AAA-large" :> 4500000)

\* C20: get_target_ratio returns a numeric ratio as it was given and the
\* threshold of each of the five named levels, and raises the unknown-level
\* error for any other name; adjust_contrast raises that error for such a
\* target whatever the colors and the mode are.
C20_TargetRatio ==
    /\ (call.op = "get_target_ratio" /\ Done)
        => IF call.target.kind = "ratio" THEN ret = call.target
           ELSE IF call.target.name \in DOMAIN NamedThresholds
           THEN ret = Ratio(NamedThresholds[call.target.name])
           ELSE ret = UnknownLevelError
    /\ (call.op = "adjust_contrast" /\ Done /\ call.target.kind = "level"
            /\ call.target.name \notin DOMAIN NamedThresholds)
        => ret = UnknownLevelError

\* adjust_contrast was given an unknown level and a mode it does not handle,
\* and raised the error of the level
C20_Witness ==
    /\ call.op = "adjust_contrast" /\ Done
    /\ call.target = Level("INVALID")
    /\ call.adjust = "both"
    /\ ret = UnknownLevelError

-----------------------------------------------------------------------------
(* Properties of ContrastResult's level checks, checked under SpecLevels *)

\* the thresholds of the levels that have one
LevelThresholds ==
    ("AA" :> 4500000) @@ ("AAA" :> 7 * ONE)
      @@ ("AA-large" :> 3 * ONE) @@ ("AAA-large" :> 4500000)

\* the passes_* property of each level
Passes(self) ==
    ("AA" :> passes_AA(self)) @@ ("AAA" :> passes_AAA(self))
      @@ ("AA-large" :> passes_AA_large(self))
      @@ ("AAA-large" :> passes_AAA_large(self))

\* C19: meets_level is true exactly when the ratio is at or above 4.5 for AA,
\* 7 for AAA, 3 for AA-large and 4.5 for AAA-large, and always for A; any
\* other level raises the unknown-level error; the answer is that of the
\* level's passes_* property and of its compliance_summary entry.
C19_MeetsLevel ==
    /\ (call.op = "meets_level" /\ Done)
        => IF call.level \in DOMAIN LevelThresholds
           THEN /\ ret = Bool(call.self.ratio >= LevelThresholds[call.level])
                /\ ret = Bool(Passes(call.self)[call.level])
                /\ ret = Bool(compliance_summary(call.self).items[call.level])
           ELSE IF call.level = "A" THEN ret = Bool(TRUE)
           ELSE ret = UnknownLevelError
    /\ (call.op = "compliance_summary" /\ Done)
        => /\ DOMAIN ret.items = DOMAIN LevelThresholds
           /\ \A level \in DOMAIN LevelThresholds :
                 ret.items[level] = (call.self.ratio >= LevelThresholds[level])

\* a ratio of exactly 4.5 was asked about large text at AAA and met it,
\* while it does not meet AAA
C19_Witness ==
    /\ call.op = "meets_level" /\ Done
    /\ call.level = "AAA-large"
    /\ call.self.ratio = 4500000
    /\ ret = Bool(TRUE)
    /\ meets_level(call.self, "AAA") = Bool(FALSE)

-----------------------------------------------------------------------------
(* Properties of the lazy Color, checked under SpecLazy *)

\* what a single caller gets from each property of the Color that was made
\* from the representation of the call
ExpectedRgb ==
    IF call.op = "Color.from_rgb" THEN call.value
    ELSE IF call.op = "Color.from_hsl" THEN hsl_to_rgb(call.value)
    ELSE hsv_to_rgb(call.value)

Expected ==
    ("rgb" :> ExpectedRgb)
      @@ ("hsl" :> IF call.op = "Color.from_hsl" THEN call.value ELSE to_hsl(ExpectedRgb))
      @@ ("hsv" :> IF call.op = "Color.from_hsv" THEN call.value ELSE to_hsv(ExpectedRgb))

IsLazy == call.op \in {"Color.from_rgb", "Color.from_hsl", "Color.from_hsv"}

\* C21: no operation on a value changes a field it stores; for the lazy Color,
\* no step of a read of rgb, hsl or hsv changes _rgb, _hsl or _hsv, the fields
\* that its equality and hash are computed from.
C21_FieldsNeverChange == [][IsLazy => shared' = shared]_vars

-----------------------------------------------------------------------------
(* Properties of the search for the adjusted color, checked under SpecAdjust *)

\* a call in fg or bg mode on a pair below a valid target has returned
SingleCase ==
    /\ call.op = "adjust_contrast" /\ Done /\ HasTarget
    /\ call.adjust \in {"fg", "bg"}
    /\ CurrentResult.ratio < TargetRatio
    /\ ret.kind = "tuple"

\* the color that came back in the place of the adjustable one
AdjustedColor == IF call.adjust = "fg" THEN ret.fg ELSE ret.bg

\* the luminances target * (L_fixed + 0.05) - 0.05 and
\* (L_fixed + 0.05) / target - 0.05
CandidateLuminances ==
    << Mul(TargetRatio, WcagEncode(Held).l + FLARE) - FLARE,
       Div(WcagEncode(Held).l + FLARE, TargetRatio) - FLARE >>

\* the adjustable color's hue and chroma at the two luminances
CandidateColors ==
    [i \in 1 .. 2 |->
        WcagDecode(WcagHCLEncoding(WcagEncode(Adjustable).h, WcagEncode(Adjustable).c,
                                   CandidateLuminances[i]))]

\* the candidates re-measured against the fixed color
CandidateRatios ==
    [i \in 1 .. 2 |-> calculate_contrast(CandidateColors[i], Held).ratio]

\* candidate i is the one the selection rule names
LeastOvershoot(i) ==
    IF \E j \in 1 .. 2 : CandidateRatios[j] >= TargetRatio
    THEN /\ CandidateRatios[i] >= TargetRatio
         /\ \A j \in 1 .. 2 : CandidateRatios[j] >= TargetRatio
                                 => CandidateRatios[i] <= CandidateRatios[j]
    ELSE \A j \in 1 .. 2 : Abs(CandidateRatios[i] - TargetRatio)
                              <= Abs(CandidateRatios[j] - TargetRatio)

\* C24: the color returned by a single-color adjustment is, of the two
\* candidates, the one with the smallest re-measured ratio among those at or
\* above the target, or, when neither reaches the target, the one whose ratio
\* is nearest to the target.
C24_LeastOvershoot ==
    SingleCase => \E i \in 1 .. 2 : AdjustedColor = CandidateColors[i] /\ LeastOvershoot(i)

\* both candidates reach the target with different ratios, and the one that
\* overshoots less came back, not the other
C24_Witness ==
    /\ SingleCase
    /\ \A j \in 1 .. 2 : CandidateRatios[j] >= TargetRatio
    /\ \E i, j \in 1 .. 2 :
         /\ CandidateRatios[i] < CandidateRatios[j]
         /\ AdjustedColor = CandidateColors[i]
         /\ AdjustedColor # CandidateColors[j]

\* neither candidate reaches the target, and the nearer one came back
C24_WitnessUnreached ==
    /\ SingleCase
    /\ \A j \in 1 .. 2 : CandidateRatios[j] < TargetRatio
    /\ CandidateRatios[1] # CandidateRatios[2]
    /\ \E i \in 1 .. 2 : AdjustedColor = CandidateColors[i] /\ LeastOvershoot(i)

\* candidate i is the one whose luminance is nearest to the luminance the
\* adjustable color has now
ClosestToCurrent(i) ==
    \A j \in 1 .. 2 :
        Abs(CandidateLuminances[i] - WcagEncode(Adjustable).l)
            <= Abs(CandidateLuminances[j] - WcagEncode(Adjustable).l)

\* C27: when both candidate luminances give a color that meets the target, the
\* one returned is the one nearest to the current luminance of the color being
\* adjusted.
C27_ClosestToCurrent ==
    (SingleCase /\ \A j \in 1 .. 2 : CandidateRatios[j] >= TargetRatio)
    => \E i \in 1 .. 2 : AdjustedColor = CandidateColors[i] /\ ClosestToCurrent(i)

\* C26: a single-color adjustment returns one of two colors, each decoded from
\* the hue and the chroma percentage of the color being adjusted and a new
\* luminance, target * (L_fixed + 0.05) - 0.05 or (L_fixed + 0.05) / target - 0.05,
\* and the ratio it reports is that color's ratio re-measured against the fixed
\* color.
C26_HueAndChromaKept ==
    SingleCase =>
        LET h == WcagEncode(Adjustable).h
            c == WcagEncode(Adjustable).c
            L_fixed == WcagEncode(Held).l
            first == WcagDecode(WcagHCLEncoding(h, c, Mul(TargetRatio, L_fixed + FLARE) - FLARE))
            second == WcagDecode(WcagHCLEncoding(h, c, Div(L_fixed + FLARE, TargetRatio) - FLARE))
        IN  \/ AdjustedColor = first
               /\ ret.result.ratio = calculate_contrast(first, Held).ratio
            \/ AdjustedColor = second
               /\ ret.result.ratio = calculate_contrast(second, Held).ratio

\* a chromatic color was adjusted to the second candidate, the darker one, which
\* differs from the first and from the color given
C26_Witness ==
    /\ SingleCase
    /\ WcagEncode(Adjustable).c > 0
    /\ AdjustedColor = CandidateColors[2]
    /\ AdjustedColor # CandidateColors[1]
    /\ AdjustedColor # Adjustable
    /\ WcagEncode(AdjustedColor).c > 0

\* an auto call on a pair below a valid target has returned
AutoCase ==
    /\ call.op = "adjust_contrast" /\ Done /\ HasTarget
    /\ call.adjust = "auto"
    /\ CurrentResult.ratio < TargetRatio
    /\ ret.kind = "tuple"

\* what adjusting the foreground alone gives, and what adjusting the background
\* alone gives: the pair, its ratio, and how far the luminance was moved; a
\* strategy that raised leaves the pair as given, infinitely far
FgStrategy ==
    LET a == adjust_lightness_for_contrast(call.fg, call.bg, TargetRatio)
    IN  IF IsErr(a)
        THEN [fg |-> call.fg, bg |-> call.bg, ratio |-> CurrentResult.ratio,
              change |-> Inf]
        ELSE [fg |-> a, bg |-> call.bg, ratio |-> calculate_contrast(a, call.bg).ratio,
              change |-> Abs(luminance(call.fg) - luminance(a))]

BgStrategy ==
    LET a == adjust_lightness_for_contrast(call.bg, call.fg, TargetRatio)
    IN  IF IsErr(a)
        THEN [fg |-> call.fg, bg |-> call.bg, ratio |-> CurrentResult.ratio,
              change |-> Inf]
        ELSE [fg |-> call.fg, bg |-> a, ratio |-> calculate_contrast(call.fg, a).ratio,
              change |-> Abs(luminance(call.bg) - luminance(a))]

\* the pair of a strategy came back, with its ratio
Chose(strategy) ==
    /\ ret.fg = strategy.fg /\ ret.bg = strategy.bg
    /\ ret.result.ratio = strategy.ratio

\* C25: auto mode returns the pair of the fg strategy or of the bg strategy: if
\* both reach the target the one that moved its color's luminance less (fg on a
\* tie), if one reaches it that one, if neither the one with the higher ratio
\* (fg on a tie).
C25_AutoSelection ==
    AutoCase =>
        LET f == FgStrategy
            b == BgStrategy
        IN  IF f.ratio >= TargetRatio /\ b.ratio >= TargetRatio
            THEN Chose(IF f.change <= b.change THEN f ELSE b)
            ELSE IF f.ratio >= TargetRatio THEN Chose(f)
            ELSE IF b.ratio >= TargetRatio THEN Chose(b)
            ELSE Chose(IF f.ratio >= b.ratio THEN f ELSE b)

\* both strategies reach the target, the background needs the smaller move, and
\* the background was adjusted
C25_Witness ==
    /\ AutoCase
    /\ FgStrategy.ratio >= TargetRatio /\ BgStrategy.ratio >= TargetRatio
    /\ BgStrategy.change < FgStrategy.change
    /\ FgStrategy.fg # call.fg
    /\ ret.fg = call.fg /\ ret.bg = BgStrategy.bg /\ ret.bg # call.bg

\* neither strategy reaches the target, and the one with the higher ratio, the
\* background's, came back
C25_WitnessNeither ==
    /\ AutoCase
    /\ FgStrategy.ratio < BgStrategy.ratio /\ BgStrategy.ratio < TargetRatio
    /\ Chose(BgStrategy) /\ ~Chose(FgStrategy)

\* a call in a mode that adjusts, with a valid target, has returned
AdjustingCase ==
    /\ call.op = "adjust_contrast" /\ Done /\ HasTarget
    /\ call.adjust \in {"fg", "bg", "auto"}

\* one of the two candidates for the adjustable color reaches the target
\* against the color held fixed
ReachedBy(adjustable, held) ==
    \E L \in {Mul(TargetRatio, WcagEncode(held).l + FLARE) - FLARE,
              Div(WcagEncode(held).l + FLARE, TargetRatio) - FLARE} :
        calculate_contrast(
            WcagDecode(WcagHCLEncoding(WcagEncode(adjustable).h,
                                       WcagEncode(adjustable).c, L)),
            held).ratio >= TargetRatio

\* the pair given meets the target, or a candidate of the mode does
TargetReached ==
    \/ CurrentResult.ratio >= TargetRatio
    \/ call.adjust \in {"fg", "auto"} /\ ReachedBy(call.fg, call.bg)
    \/ call.adjust \in {"bg", "auto"} /\ ReachedBy(call.bg, call.fg)

\* C28 as stated: in fg, bg and auto mode the ratio of the pair that comes back
\* is at least the ratio of the pair given, also when the target is out of
\* reach.
C28_NeverLowersContrast ==
    AdjustingCase =>
        /\ ret.kind = "tuple"
        /\ calculate_contrast(ret.fg, ret.bg).ratio >= CurrentResult.ratio

\* C28: in fg, bg and auto mode the ratio of the pair that comes back is at
\* least the ratio of the pair given whenever the pair given or a candidate of
\* the adjustment reaches the target; when none does, the ratio that comes back
\* can be lower than the one given.
C28_NeverLowersWhenReached ==
    AdjustingCase =>
        /\ ret.kind = "tuple"
        /\ TargetReached
              => calculate_contrast(ret.fg, ret.bg).ratio >= CurrentResult.ratio

\* only the darker candidate reaches the target; the pair that came back
\* differs from the pair given and has a higher ratio
C28_Witness ==
    /\ AdjustingCase
    /\ call.adjust = "fg"
    /\ CurrentResult.ratio < TargetRatio
    /\ CandidateRatios[1] < TargetRatio /\ CandidateRatios[2] >= TargetRatio
    /\ ret.kind = "tuple"
    /\ ret.fg # call.fg
    /\ calculate_contrast(ret.fg, ret.bg).ratio > CurrentResult.ratio

\* no candidate reaches the target, and the pair that came back has a lower
\* ratio than the pair given
C28_Lowered ==
    /\ AdjustingCase
    /\ ~TargetReached
    /\ ret.kind = "tuple"
    /\ calculate_contrast(ret.fg, ret.bg).ratio < CurrentResult.ratio

\* C29: whenever adjust_contrast returns, its ContrastResult describes the pair
\* it returns: the foreground and background of the result are the two colors
\* returned, and its ratio is calculate_contrast of those two colors.
C29_ResultDescribesPair ==
    (call.op = "adjust_contrast" /\ Done /\ ret.kind = "tuple")
    => /\ ret.result.foreground = ret.fg
       /\ ret.result.background = ret.bg
       /\ ret.result = calculate_contrast(ret.fg, ret.bg)

\* an auto call that adjusted the background returned a result measured on the
\* given foreground and the new background
C29_Witness ==
    /\ AutoCase
    /\ ret.bg # call.bg
    /\ ret.result.background = ret.bg
    /\ ret.result.foreground = call.fg
    /\ ret.result # CurrentResult
    /\ ret.result = calculate_contrast(ret.fg, ret.bg)

\* what decode gives for the two candidates of an adjustable color
CandidatesOf(adjustable, held) ==
    {WcagDecode(WcagHCLEncoding(WcagEncode(adjustable).h, WcagEncode(adjustable).c, L)) :
        L \in {Mul(TargetRatio, WcagEncode(held).l + FLARE) - FLARE,
               Div(WcagEncode(held).l + FLARE, TargetRatio) - FLARE}}

\* C30: decode raises nothing and returns a Color with its three components
\* in [0,1] for every hue, chroma and luminance, also for a luminance above 1
\* or below 0; and adjust_contrast in fg, bg or auto mode with a valid target
\* returns a pair, each of its candidates being such a Color.
C30_DecodeTotal ==
    /\ (call.op = "wcag_decode" /\ Done)
          => /\ ret.kind = "Color"
             /\ \A v \in {ret.red, ret.green, ret.blue} : 0 <= v /\ v <= ONE
    /\ AdjustingCase
          => /\ ret.kind = "tuple"
             /\ ret.fg.kind = "Color" /\ ret.bg.kind = "Color"
             /\ \A c \in CandidatesOf(call.fg, call.bg) \cup CandidatesOf(call.bg, call.fg) :
                  c.kind = "Color"

\* a decode with chroma, at a luminance above 1, returned a color that is not
\* white; one at a luminance below 0 would return one that is not black
C30_Witness ==
    /\ call.op = "wcag_decode" /\ Done
    /\ call.c > 0 /\ call.h # 0
    /\ call.l > ONE
    /\ ret.kind = "Color"
    /\ ret # White

\* an adjustment of a chromatic color whose two candidate luminances are both
\* outside [0,1], one above and one below, returned a pair
C30_WitnessAdjust ==
    /\ SingleCase
    /\ WcagEncode(Adjustable).c > 0
    /\ CandidateLuminances[1] > ONE /\ CandidateLuminances[2] < 0
    /\ ret.kind = "tuple"

========================================================================
